---- MODULE Spec2Model ----
(***************************************************************************)
(* Model of the alpha scoring engine of app/services/alpha_signals.py      *)
(* (class AlphaSignalsService) and of the chart pattern matchers of        *)
(* app/services/pattern_recognition.py (class PatternRecognition).         *)
(*                                                                         *)
(* Numbers.  A Python float is modelled as an exact rational <<n, d>> in   *)
(* lowest terms with d > 0; Python's None is the pair <<0, 0>> and the     *)
(* outcome of an operation Python refuses (TypeError, ZeroDivisionError)   *)
(* is the pair <<0, -1>>.  NaN and the infinities are not modelled.        *)
(*                                                                         *)
(* State.  The scoring functions are pure: a state holds one call (the     *)
(* function and its arguments), the local variables the function computed  *)
(* and the value it returned.  Init draws the call from bounded argument   *)
(* sets; one action per function applies it.                               *)
(***************************************************************************)
EXTENDS Integers, Sequences, FiniteSets

VARIABLES call, locals, ret, chart, service

vars == <<call, locals, ret, chart, service>>

(***************************************************************************)
(* Bounds of the argument sets.                                            *)
(***************************************************************************)
\* _normalize_pct is probed at x = 5*k percent, k in -MaxPctK..MaxPctK.
MaxPctK == 12
\* _ratio_to_score is probed at r = k/10, k in -MaxRatioK..MaxRatioK.
MaxRatioK == 60
\* _bias_from_funding is probed at rate = k/2000, k in -MaxRateK..MaxRateK.
MaxRateK == 30
\* oi_change_24h_pct of a scoring call is 30*k percent, k in -MaxOiK..MaxOiK
\* (and the two far values -400 and 400).
MaxOiK == 2
\* The top-trader series of a smart-money call has at most this many points.
MaxSeriesLen == 2
\* A series handed to the extremum finder has at most this many prices.
MaxExtLen == 6
\* The extremum finder is called with order in -1..MaxOrder (and the
\* default order).
MaxOrder == 3

(***************************************************************************)
(* Python values and float arithmetic.                                     *)
(***************************************************************************)
None == <<0, 0>>

TypeError == <<0, -1>>

Abs(n) == IF n < 0 THEN -n ELSE n

RECURSIVE GCD(_, _)
GCD(a, b) == IF b = 0 THEN a ELSE GCD(b, a % b)

\* The rational n/d (d # 0) in lowest terms with a positive denominator.
Frac(n, d) ==
  LET g == GCD(Abs(n), Abs(d))
      s == IF d < 0 THEN -1 ELSE 1
  IN  <<(s * n) \div g, (s * d) \div g>>

R(n) == <<n, 1>>

Zero == R(0)

\* `x is None`
IsNone(x) == x = None

\* An operand Python cannot compute with: None, or a failure already raised.
NotNumber(x) == x[2] <= 0

RAdd(a, b) ==
  IF NotNumber(a) \/ NotNumber(b) THEN TypeError
  ELSE Frac(a[1] * b[2] + b[1] * a[2], a[2] * b[2])

RSub(a, b) ==
  IF NotNumber(a) \/ NotNumber(b) THEN TypeError
  ELSE Frac(a[1] * b[2] - b[1] * a[2], a[2] * b[2])

RMul(a, b) ==
  IF NotNumber(a) \/ NotNumber(b) THEN TypeError
  ELSE Frac(a[1] * b[1], a[2] * b[2])

\* a / b: ZeroDivisionError on b = 0.
RDiv(a, b) ==
  IF NotNumber(a) \/ NotNumber(b) \/ b[1] = 0 THEN TypeError
  ELSE Frac(a[1] * b[2], a[2] * b[1])

RNeg(a) == IF NotNumber(a) THEN TypeError ELSE <<-a[1], a[2]>>

\* Comparisons of two numbers (the caller has excluded None).
RLt(a, b) == a[1] * b[2] < b[1] * a[2]

RLe(a, b) == a[1] * b[2] <= b[1] * a[2]

RGt(a, b) == RLt(b, a)

RGe(a, b) == RLe(b, a)

\* A comparison Python refuses: `<`, `>` between None and a float.
CmpError(a, b) == NotNumber(a) \/ NotNumber(b)

\* min(a, b) and max(a, b) of Python: the first argument unless the second beats it.
PyMin(a, b) == IF CmpError(a, b) THEN TypeError ELSE IF RLt(b, a) THEN b ELSE a

PyMax(a, b) == IF CmpError(a, b) THEN TypeError ELSE IF RGt(b, a) THEN b ELSE a

\* int(round(a)): Python 3 rounds to the nearest integer, a tie to the even one.
IntRound(a) ==
  LET q  == a[1] \div a[2]
      r2 == 2 * (a[1] - q * a[2])
  IN  IF r2 < a[2] THEN q
      ELSE IF r2 > a[2] THEN q + 1
      ELSE IF q % 2 = 0 THEN q ELSE q + 1

\* `x or 0`: None and 0.0 are both falsy.
OrZero(x) == IF IsNone(x) \/ x = Zero THEN Zero ELSE x

\* Truth value of a float: non-zero.
Truthy(x) == x # Zero

(***************************************************************************)
(* Normalization primitives.                                               *)
(***************************************************************************)
\* _normalize_pct with the clamping line left out.
NormalizeNoClamp(x, clamp) ==
  IF IsNone(x) THEN R(50)
  ELSE RAdd(R(50), RMul(RDiv(x, clamp), R(50)))

\* _normalize_pct with 0 instead of the neutral 50 for a missing value.
NormalizeNoneZero(x, clamp) ==
  IF IsNone(x) THEN Zero
  ELSE LET xc == PyMax(RNeg(clamp), PyMin(clamp, x))
       IN  RAdd(R(50), RMul(RDiv(xc, clamp), R(50)))

_normalize_pct(x, clamp) ==
  IF IsNone(x) THEN R(50)
  ELSE LET xc == PyMax(RNeg(clamp), PyMin(clamp, x))
       IN  RAdd(R(50), RMul(RDiv(xc, clamp), R(50)))

\* _ratio_to_score with the sign of the branch below 1.0 slipped.
RatioToScoreSignSlip(r) ==
  IF IsNone(r) THEN R(50)
  ELSE IF CmpError(r, Zero) THEN TypeError
  ELSE IF RLe(r, Zero) THEN R(50)
  ELSE LET rc == PyMax(Frac(1, 5), PyMin(R(5), r))
       IN  IF RGe(rc, R(1))
           THEN RAdd(R(50), PyMin(R(50), RMul(RDiv(RSub(rc, R(1)), R(4)), R(50))))
           ELSE RAdd(R(50), PyMin(R(50), RMul(RDiv(RSub(R(1), rc), Frac(4, 5)), R(50))))

_ratio_to_score(r) ==
  IF IsNone(r) THEN R(50)
  ELSE IF CmpError(r, Zero) THEN TypeError
  ELSE IF RLe(r, Zero) THEN R(50)
  ELSE LET rc == PyMax(Frac(1, 5), PyMin(R(5), r))
       IN  IF RGe(rc, R(1))
           THEN RAdd(R(50), PyMin(R(50), RMul(RDiv(RSub(rc, R(1)), R(4)), R(50))))
           ELSE RSub(R(50), PyMin(R(50), RMul(RDiv(RSub(R(1), rc), Frac(4, 5)), R(50))))

\* _bias_from_funding with `rate <= -0.005` for the crowded-short test.
BiasBoundaryInclusive(rate) ==
  IF IsNone(rate) THEN "neutral"
  ELSE IF CmpError(rate, Zero) THEN "TypeError"
  ELSE IF RGt(rate, Frac(1, 100)) THEN "bullish_crowded"
  ELSE IF RGt(rate, Zero) THEN "slightly_bullish"
  ELSE IF RLe(rate, Frac(-5, 1000)) THEN "bearish_crowded"
  ELSE IF RLt(rate, Zero) THEN "slightly_bearish"
  ELSE "neutral"

_bias_from_funding(rate) ==
  IF IsNone(rate) THEN "neutral"
  ELSE IF CmpError(rate, Zero) THEN "TypeError"
  ELSE IF RGt(rate, Frac(1, 100)) THEN "bullish_crowded"
  ELSE IF RGt(rate, Zero) THEN "slightly_bullish"
  ELSE IF RLt(rate, Frac(-5, 1000)) THEN "bearish_crowded"
  ELSE IF RLt(rate, Zero) THEN "slightly_bearish"
  ELSE "neutral"

(***************************************************************************)
(* Smart-money flow.                                                       *)
(***************************************************************************)
\* LongShare without the `is not None` test.
LongShareNoNoneTest(r) ==
  IF CmpError(r, Zero) THEN TypeError
  ELSE IF RGt(r, Zero) THEN RDiv(r, RAdd(R(1), r))
  ELSE None

\* long share of a ratio: r/(1.0+r) if r is not None and r>0 else None
LongShare(r) ==
  IF IsNone(r) THEN None
  ELSE IF CmpError(r, Zero) THEN TypeError
  ELSE IF RGt(r, Zero) THEN RDiv(r, RAdd(R(1), r))
  ELSE None

\* long_share_now: from the last point of a non-empty series.
LongShareNow(ls_pos_series) ==
  IF Len(ls_pos_series) >= 1 THEN LongShare(ls_pos_series[Len(ls_pos_series)]) ELSE None

\* LongSharePrev taking the first point of a one-point series too.
LongSharePrevOffByOne(ls_pos_series) ==
  IF Len(ls_pos_series) >= 1 THEN LongShare(ls_pos_series[1]) ELSE None

\* long_share_prev: from the first point of a series of two points or more.
LongSharePrev(ls_pos_series) ==
  IF Len(ls_pos_series) >= 2 THEN LongShare(ls_pos_series[1]) ELSE None

\* LiqAdj with the two adjustments exchanged.
LiqAdjSwapped(liq_long, liq_short) ==
  LET l == OrZero(liq_long)
      s == OrZero(liq_short)
  IN  IF RGt(l, Zero) \/ RGt(s, Zero)
      THEN IF RGt(s, RMul(l, Frac(13, 10))) THEN R(-5)
           ELSE IF RGt(l, RMul(s, Frac(13, 10))) THEN R(5)
           ELSE Zero
      ELSE Zero

\* The liquidation adjustment of the flow value.
LiqAdj(liq_long, liq_short) ==
  LET l == OrZero(liq_long)
      s == OrZero(liq_short)
  IN  IF RGt(l, Zero) \/ RGt(s, Zero)
      THEN IF RGt(s, RMul(l, Frac(13, 10))) THEN R(5)
           ELSE IF RGt(l, RMul(s, Frac(13, 10))) THEN R(-5)
           ELSE Zero
      ELSE Zero

\* The liquidation reason of the flow, if any.
LiqFlowReason(liq_long, liq_short) ==
  LET l == OrZero(liq_long)
      s == OrZero(liq_short)
  IN  IF RGt(l, Zero) \/ RGt(s, Zero)
      THEN IF RGt(s, RMul(l, Frac(13, 10))) THEN <<"Likuidasi short dominan (relief atas)">>
           ELSE IF RGt(l, RMul(s, Frac(13, 10))) THEN <<"Likuidasi long dominan (tekanan turun)">>
           ELSE <<"Likuidasi relatif seimbang">>
      ELSE <<>>

\* fbias.replace('_',' ') on the five bias names.
ReplaceUnderscore(fbias) ==
  IF fbias = "bullish_crowded" THEN "bullish crowded"
  ELSE IF fbias = "slightly_bullish" THEN "slightly bullish"
  ELSE IF fbias = "bearish_crowded" THEN "bearish crowded"
  ELSE IF fbias = "slightly_bearish" THEN "slightly bearish"
  ELSE fbias

FlowLabel(flow_score) ==
  IF flow_score >= 60 THEN "INFLOW"
  ELSE IF flow_score <= 40 THEN "OUTFLOW" ELSE "NEUTRAL"

\* Every local of _smart_money_flow at its return statement; `raised` tells
\* that an operation on the way failed and nothing was returned.
SmartMoneyLocals(oi_change_pct, ls_pos_series, funding_rate, liq_long, liq_short) ==
  LET long_share_now  == LongShareNow(ls_pos_series)
      long_share_prev == LongSharePrev(ls_pos_series)
      delta_share_pp ==
        IF ~IsNone(long_share_now) /\ ~IsNone(long_share_prev)
        THEN RMul(RSub(long_share_now, long_share_prev), R(100))
        ELSE None
      norm_oi == RSub(_normalize_pct(oi_change_pct, R(40)), R(50))
      norm_share ==
        IF IsNone(delta_share_pp) THEN Zero
        ELSE RMul(RDiv(PyMax(R(-20), PyMin(R(20), delta_share_pp)), R(20)), R(50))
      fbias == _bias_from_funding(funding_rate)
      fudge == RAdd(IF fbias = "bearish_crowded" THEN R(5) ELSE Zero,
                    IF fbias = "bullish_crowded" THEN R(-5) ELSE Zero)
      liq_adj == LiqAdj(liq_long, liq_short)
      flow_val == RAdd(RAdd(RAdd(RMul(Frac(6, 10), norm_oi), RMul(Frac(4, 10), norm_share)),
                            fudge), liq_adj)
      raised == \/ TypeError \in {long_share_now, long_share_prev, delta_share_pp,
                                  norm_oi, norm_share, flow_val}
                \/ fbias = "TypeError"
      rounded == IntRound(RAdd(R(50), flow_val))
      flow_score == IF rounded > 100 THEN 100 ELSE IF rounded < 0 THEN 0 ELSE rounded
      label == FlowLabel(flow_score)
      reasons ==
        (IF ~IsNone(oi_change_pct) THEN <<"Open Interest %/24h">> ELSE <<>>)
        \o (IF ~IsNone(delta_share_pp)
            THEN IF RGe(delta_share_pp, Zero) THEN <<"Top Trader Long Share up pp/24h">>
                 ELSE <<"Top Trader Long Share down pp/24h">>
            ELSE <<>>)
        \o <<"Funding: " \o ReplaceUnderscore(fbias)>>
        \o LiqFlowReason(liq_long, liq_short)
  IN  IF raised THEN [raised |-> TRUE]
      ELSE [raised |-> FALSE, long_share_now |-> long_share_now,
            long_share_prev |-> long_share_prev, delta_share_pp |-> delta_share_pp,
            norm_oi |-> norm_oi, norm_share |-> norm_share, fbias |-> fbias,
            fudge |-> fudge, liq_adj |-> liq_adj, flow_val |-> flow_val,
            flow_score |-> flow_score, label |-> label, reasons |-> reasons]

\* The dict _smart_money_flow returns.
_smart_money_flow(oi_change_pct, ls_pos_series, funding_rate, liq_long, liq_short) ==
  LET Dict(f) ==
        IF f.raised THEN [fn |-> "_smart_money_flow", raised |-> TRUE]
        ELSE [fn |-> "_smart_money_flow", raised |-> FALSE,
              score |-> f.flow_score, label |-> f.label,
              delta_long_share_pp |-> f.delta_share_pp,
              components |-> [oi_norm |-> f.norm_oi, share_norm |-> f.norm_share,
                              funding_bias |-> f.fbias, liq_adj |-> f.liq_adj],
              reasons |-> f.reasons]
  IN  Dict(SmartMoneyLocals(oi_change_pct, ls_pos_series, funding_rate, liq_long, liq_short))

(***************************************************************************)
(* Composite alpha.                                                        *)
(***************************************************************************)
\* FundScore with the two mild scores exchanged.
FundScoreSwapped(bias) ==
  IF bias = "bullish_crowded" THEN R(40)
  ELSE IF bias = "slightly_bullish" THEN R(62)
  ELSE IF bias = "slightly_bearish" THEN R(58)
  ELSE IF bias = "bearish_crowded" THEN R(68)
  ELSE R(50)

\* fund_score and the funding reason of a bias.
FundScore(bias) ==
  IF bias = "bullish_crowded" THEN R(40)
  ELSE IF bias = "slightly_bullish" THEN R(58)
  ELSE IF bias = "slightly_bearish" THEN R(62)
  ELSE IF bias = "bearish_crowded" THEN R(68)
  ELSE R(50)

\* FundReason with the neutral bias worded as a positive funding.
FundReasonNoNeutral(bias) ==
  IF bias = "bullish_crowded" THEN "Funding sangat positif -> longs crowded"
  ELSE IF bias = "slightly_bearish" THEN "Funding negatif ringan -> kontra crowd"
  ELSE IF bias = "bearish_crowded" THEN "Funding sangat negatif -> shorts crowded (squeeze risk)"
  ELSE "Funding positif -> dominasi long"

FundReason(bias) ==
  IF bias = "bullish_crowded" THEN "Funding sangat positif -> longs crowded"
  ELSE IF bias = "slightly_bullish" THEN "Funding positif -> dominasi long"
  ELSE IF bias = "slightly_bearish" THEN "Funding negatif ringan -> kontra crowd"
  ELSE IF bias = "bearish_crowded" THEN "Funding sangat negatif -> shorts crowded (squeeze risk)"
  ELSE "Funding netral"

\* liq_score of the two volumes after `or 0.0`.
LiqScore(long_usd, short_usd) ==
  IF Truthy(long_usd) \/ Truthy(short_usd)
  THEN IF RGt(short_usd, RMul(long_usd, Frac(13, 10))) THEN R(58)
       ELSE IF RGt(long_usd, RMul(short_usd, Frac(13, 10))) THEN R(42)
       ELSE R(50)
  ELSE R(50)

\* LiqReason without the reason for balanced liquidations.
LiqReasonNoBalanced(long_usd, short_usd) ==
  IF Truthy(long_usd) \/ Truthy(short_usd)
  THEN IF RGt(short_usd, RMul(long_usd, Frac(13, 10)))
       THEN <<"Likuidasi short dominan -> potensi relief ke atas">>
       ELSE IF RGt(long_usd, RMul(short_usd, Frac(13, 10)))
       THEN <<"Likuidasi long dominan -> tekanan turun">>
       ELSE <<>>
  ELSE <<>>

LiqReason(long_usd, short_usd) ==
  IF Truthy(long_usd) \/ Truthy(short_usd)
  THEN IF RGt(short_usd, RMul(long_usd, Frac(13, 10)))
       THEN <<"Likuidasi short dominan -> potensi relief ke atas">>
       ELSE IF RGt(long_usd, RMul(short_usd, Frac(13, 10)))
       THEN <<"Likuidasi long dominan -> tekanan turun">>
       ELSE <<"Likuidasi relatif seimbang">>
  ELSE <<>>

\* CompositeLabel with `> 60` for BULLISH.
CompositeLabelStrict(composite) ==
  IF composite > 60 THEN "BULLISH"
  ELSE IF composite <= 40 THEN "BEARISH" ELSE "NEUTRAL"

CompositeLabel(composite) ==
  IF composite >= 60 THEN "BULLISH"
  ELSE IF composite <= 40 THEN "BEARISH" ELSE "NEUTRAL"

\* Every local of _compose_alpha at its return statement.
ComposeLocals(m) ==
  LET oi == m.oi_change_24h_pct
      oi_score == _normalize_pct(oi, R(40))
      oi_cmp == IF IsNone(oi) THEN FALSE ELSE CmpError(oi, Zero)
      oi_reason ==
        IF IsNone(oi) THEN <<>>
        ELSE IF RGt(oi, Zero)
        THEN <<"Open Interest naik -> leverage bertambah (potensi move besar)">>
        ELSE <<"Open Interest turun -> deleverage">>
      bias == _bias_from_funding(m.funding_rate_8h)
      fund_score == FundScore(bias)
      ls_score == RDiv(RAdd(_ratio_to_score(m.ls_accounts), _ratio_to_score(m.ls_positions)),
                       R(2))
      ls_reason ==
        IF ~IsNone(m.ls_accounts) \/ ~IsNone(m.ls_positions)
        THEN IF RGe(ls_score, R(52)) THEN <<"Long/Short ratio condong ke long">>
             ELSE IF RLe(ls_score, R(48)) THEN <<"Long/Short ratio condong ke short">>
             ELSE <<"Long/Short ratio condong ke netral">>
        ELSE <<>>
      long_usd == OrZero(m.liq_24h_long_usd)
      short_usd == OrZero(m.liq_24h_short_usd)
      liq_score == LiqScore(long_usd, short_usd)
      weighted == RAdd(RAdd(RAdd(RMul(Frac(30, 100), oi_score), RMul(Frac(25, 100), fund_score)),
                            RMul(Frac(25, 100), ls_score)), RMul(Frac(20, 100), liq_score))
      raised == \/ oi_cmp
                \/ bias = "TypeError"
                \/ TypeError \in {oi_score, ls_score, weighted}
      composite == IntRound(weighted)
      label == CompositeLabel(composite)
      reasons == oi_reason \o <<FundReason(bias)>> \o ls_reason \o LiqReason(long_usd, short_usd)
  IN  IF raised THEN [raised |-> TRUE]
      ELSE [raised |-> FALSE, oi_score |-> oi_score, bias |-> bias,
            fund_score |-> fund_score, ls_score |-> ls_score, long_usd |-> long_usd,
            short_usd |-> short_usd, liq_score |-> liq_score,
            composite |-> composite, label |-> label, reasons |-> reasons]

\* The tuple (composite, label, reasons) _compose_alpha returns.
_compose_alpha(m) ==
  LET Tuple(f) ==
        IF f.raised THEN [fn |-> "_compose_alpha", raised |-> TRUE]
        ELSE [fn |-> "_compose_alpha", raised |-> FALSE,
              composite |-> f.composite, label |-> f.label, reasons |-> f.reasons]
  IN  Tuple(ComposeLocals(m))

(***************************************************************************)
(* Pattern recognition (app/services/pattern_recognition.py, class         *)
(* PatternRecognition).                                                    *)
(*                                                                         *)
(* A price series is a sequence of rationals.  Python positions are        *)
(* 0-based: position p of a series is its element p + 1.  A function that  *)
(* swallows every exception returns its value; one that lets an exception  *)
(* escape returns a record whose `raised` field is TRUE.                    *)
(***************************************************************************)
At(data, p) == data[p + 1]

\* numpy's take(..., mode='clip'): a position beyond an end is that end.
Clip(p, n) == IF p < 0 THEN 0 ELSE IF p > n - 1 THEN n - 1 ELSE p

\* np.greater / np.less on two prices.
\* A non-strict comparator (np.greater_equal / np.less_equal).
CompareOrEqual(comparator, a, b) == IF comparator = "greater" THEN RGe(a, b) ELSE RLe(a, b)

Compare(comparator, a, b) == IF comparator = "greater" THEN RGt(a, b) ELSE RLt(a, b)

\* A boundary-excluding neighbourhood test: position p passes only when it
\* has `order` neighbours on both sides.
RelExtremumInterior(data, comparator, order, p) ==
  /\ p - order >= 0
  /\ p + order <= Len(data) - 1
  /\ \A shift \in 1..order :
       /\ Compare(comparator, At(data, p), At(data, p + shift))
       /\ Compare(comparator, At(data, p), At(data, p - shift))

\* scipy's _boolrelextrema at one position: for every shift 1..order the
\* value is compared with the values `shift` places to either side, the
\* places being clipped to the ends of the series (mode='clip').
RelExtremum(data, comparator, order, p) ==
  \A shift \in 1..order :
    /\ Compare(comparator, At(data, p), At(data, Clip(p + shift, Len(data))))
    /\ Compare(comparator, At(data, p), At(data, Clip(p - shift, Len(data))))

\* scipy.signal.argrelextrema(data, comparator, order=order)[0]: the
\* positions of the relative extrema in ascending order; ValueError when
\* order < 1.
argrelextrema(data, comparator, order) ==
  IF order < 1 THEN [raised |-> TRUE, idx |-> <<>>]
  ELSE [raised |-> FALSE,
        idx |-> SelectSeq([i \in 1..Len(data) |-> i - 1],
                          LAMBDA p : RelExtremum(data, comparator, order, p))]

\* The body shared by _find_peaks and _find_troughs: the bare `except`
\* turns every failure of the library call into the empty list.
FindExtrema(data, comparator, order) ==
  LET r == argrelextrema(data, comparator, order)
  IN  IF r.raised THEN [raised |-> FALSE, idx |-> <<>>]
      ELSE [raised |-> FALSE, idx |-> r.idx]

_find_peaks(data, order) == FindExtrema(data, "greater", order).idx

_find_troughs(data, order) == FindExtrema(data, "less", order).idx

(***************************************************************************)
(* The frame `self.df`: the columns it carries and its bars.  Reading a    *)
(* column the frame does not carry raises KeyError.                        *)
(***************************************************************************)
Columns == {"open", "high", "low", "close"}

Col(df, c) == [i \in 1..Len(df.bars) |-> df.bars[i][c]]

\* What a matcher hands back: its list, or the exception that escaped it.
Returned(patterns) == [raised |-> FALSE, patterns |-> patterns]

KeyError == [raised |-> TRUE, patterns |-> <<>>]

\* Python's range(a, b) as a sequence.
Range(a, b) == [i \in 1..(IF b > a THEN b - a ELSE 0) |-> a + i - 1]

RAbs(x) == IF x[1] < 0 THEN RNeg(x) ELSE x

\* abs(a - b) / a < threshold on numpy floats: a zero divisor yields inf or
\* nan (no exception), which is not below any threshold.
RelDiffBelow(a, b, threshold) ==
  /\ a # Zero
  /\ RLt(RDiv(RAbs(RSub(a, b)), a), threshold)

\* The default `threshold` of the geometric matchers.
DefaultThreshold == Frac(2, 100)

(***************************************************************************)
(* Double top / double bottom.                                             *)
(***************************************************************************)
\* A pair test that forgets the price comparison.
DoubleTestNoPrice(prices, ext, i, threshold) ==
  ext[i + 2] - ext[i + 1] >= 5

\* Lines 51-53 (81-83): the test on the consecutive extrema i and i+1.
DoubleTest(prices, ext, i, threshold) ==
  /\ RelDiffBelow(At(prices, ext[i + 1]), At(prices, ext[i + 2]), threshold)
  /\ ext[i + 2] - ext[i + 1] >= 5

\* The loop of lines 46-60 (76-90): one record per passing pair, in order.
DoublePairs(prices, ext, threshold) ==
  SelectSeq(Range(0, Len(ext) - 1), LAMBDA i : DoubleTest(prices, ext, i, threshold))

\* find_double_top without the minimum-length test of line 36.
DoubleTopAnyLength(df, threshold) ==
  IF "high" \notin df.columns THEN KeyError
  ELSE LET high == Col(df, "high")
           Records(peaks, pairs) ==
             IF Len(peaks) < 2 THEN Returned(<<>>)
             ELSE Returned([k \in 1..Len(pairs) |->
                    [first_top |-> peaks[pairs[k] + 1],
                     second_top |-> peaks[pairs[k] + 2],
                     price |-> At(high, peaks[pairs[k] + 1]),
                     difference |-> RDiv(RAbs(RSub(At(high, peaks[pairs[k] + 1]),
                                                   At(high, peaks[pairs[k] + 2]))),
                                         At(high, peaks[pairs[k] + 1]))]])
           Tops(peaks) == Records(peaks, DoublePairs(high, peaks, threshold))
       IN  Tops(_find_peaks(high, 5))

find_double_top(df, threshold) ==
  IF Len(df.bars) < 10 THEN Returned(<<>>)
  ELSE IF "high" \notin df.columns THEN KeyError
  ELSE LET high == Col(df, "high")
           Records(peaks, pairs) ==
             IF Len(peaks) < 2 THEN Returned(<<>>)
             ELSE Returned([k \in 1..Len(pairs) |->
                    [first_top |-> peaks[pairs[k] + 1],
                     second_top |-> peaks[pairs[k] + 2],
                     price |-> At(high, peaks[pairs[k] + 1]),
                     difference |-> RDiv(RAbs(RSub(At(high, peaks[pairs[k] + 1]),
                                                   At(high, peaks[pairs[k] + 2]))),
                                         At(high, peaks[pairs[k] + 1]))]])
           Tops(peaks) == Records(peaks, DoublePairs(high, peaks, threshold))
       IN  Tops(_find_peaks(high, 5))

find_double_bottom(df, threshold) ==
  IF Len(df.bars) < 10 THEN Returned(<<>>)
  ELSE IF "low" \notin df.columns THEN KeyError
  ELSE LET low == Col(df, "low")
           Records(troughs, pairs) ==
             IF Len(troughs) < 2 THEN Returned(<<>>)
             ELSE Returned([k \in 1..Len(pairs) |->
                    [first_bottom |-> troughs[pairs[k] + 1],
                     second_bottom |-> troughs[pairs[k] + 2],
                     price |-> At(low, troughs[pairs[k] + 1]),
                     difference |-> RDiv(RAbs(RSub(At(low, troughs[pairs[k] + 1]),
                                                   At(low, troughs[pairs[k] + 2]))),
                                         At(low, troughs[pairs[k] + 1]))]])
           Bottoms(troughs) == Records(troughs, DoublePairs(low, troughs, threshold))
       IN  Bottoms(_find_troughs(low, 5))

(***************************************************************************)
(* Head and shoulders / inverse head and shoulders.                        *)
(***************************************************************************)
\* A head test that accepts a head level with a shoulder.
HeadAboveOrLevel(prices, ext, i) ==
  /\ RGe(At(prices, ext[i + 2]), At(prices, ext[i + 1]))
  /\ RGe(At(prices, ext[i + 2]), At(prices, ext[i + 3]))

\* Line 112: head > left_shoulder and head > right_shoulder.
HeadAbove(prices, ext, i) ==
  /\ RGt(At(prices, ext[i + 2]), At(prices, ext[i + 1]))
  /\ RGt(At(prices, ext[i + 2]), At(prices, ext[i + 3]))

\* Line 644: head < left_shoulder and head < right_shoulder.
HeadBelow(prices, ext, i) ==
  /\ RLt(At(prices, ext[i + 2]), At(prices, ext[i + 1]))
  /\ RLt(At(prices, ext[i + 2]), At(prices, ext[i + 3]))

find_head_and_shoulders(df, threshold) ==
  IF Len(df.bars) < 15 THEN Returned(<<>>)
  ELSE IF "high" \notin df.columns THEN KeyError
  ELSE LET high == Col(df, "high")
           Hits(peaks) ==
             SelectSeq(Range(0, Len(peaks) - 2), LAMBDA i :
               /\ HeadAbove(high, peaks, i)
               /\ RelDiffBelow(At(high, peaks[i + 1]), At(high, peaks[i + 3]), threshold)
               /\ peaks[i + 2] - peaks[i + 1] >= 5)
           Records(peaks, hits) ==
             IF Len(peaks) < 3 THEN Returned(<<>>)
             ELSE Returned([k \in 1..Len(hits) |->
                    [left_shoulder |-> peaks[hits[k] + 1],
                     head |-> peaks[hits[k] + 2],
                     right_shoulder |-> peaks[hits[k] + 3],
                     shoulder_price |->
                       RDiv(RAdd(At(high, peaks[hits[k] + 1]), At(high, peaks[hits[k] + 3])), R(2))]])
           Patterns(peaks) == Records(peaks, Hits(peaks))
       IN  Patterns(_find_peaks(high, 5))

find_inverse_head_shoulders(df, threshold) ==
  IF Len(df.bars) < 15 THEN Returned(<<>>)
  ELSE IF "low" \notin df.columns THEN KeyError
  ELSE LET low == Col(df, "low")
           Hits(troughs) ==
             SelectSeq(Range(0, Len(troughs) - 2), LAMBDA i :
               /\ HeadBelow(low, troughs, i)
               /\ RelDiffBelow(At(low, troughs[i + 1]), At(low, troughs[i + 3]), threshold))
           Records(troughs, hits) ==
             IF Len(troughs) < 3 THEN Returned(<<>>)
             ELSE Returned([k \in 1..Len(hits) |->
                    [left_shoulder |-> troughs[hits[k] + 1],
                     head |-> troughs[hits[k] + 2],
                     right_shoulder |-> troughs[hits[k] + 3],
                     type |-> "inverse_head_shoulders"]])
           Patterns(troughs) == Records(troughs, Hits(troughs))
       IN  Patterns(_find_troughs(low, 5))

(***************************************************************************)
(* Triple top / triple bottom.                                             *)
(***************************************************************************)
\* Lines 234-237 (263-266): diff1 < threshold and diff2 < threshold.
TripleTest(prices, ext, i, threshold) ==
  /\ RelDiffBelow(At(prices, ext[i + 1]), At(prices, ext[i + 2]), threshold)
  /\ RelDiffBelow(At(prices, ext[i + 2]), At(prices, ext[i + 3]), threshold)

TripleMean(prices, ext, i) ==
  RDiv(RAdd(RAdd(At(prices, ext[i + 1]), At(prices, ext[i + 2])), At(prices, ext[i + 3])), R(3))

find_triple_top(df, threshold) ==
  IF Len(df.bars) < 15 THEN Returned(<<>>)
  ELSE IF "high" \notin df.columns THEN KeyError
  ELSE LET high == Col(df, "high")
           Hits(peaks) ==
             SelectSeq(Range(0, Len(peaks) - 2), LAMBDA i : TripleTest(high, peaks, i, threshold))
           Records(peaks, hits) ==
             IF Len(peaks) < 3 THEN Returned(<<>>)
             ELSE Returned([k \in 1..Len(hits) |->
                    [peaks |-> <<peaks[hits[k] + 1], peaks[hits[k] + 2], peaks[hits[k] + 3]>>,
                     price |-> TripleMean(high, peaks, hits[k])]])
           Patterns(peaks) == Records(peaks, Hits(peaks))
       IN  Patterns(_find_peaks(high, 5))

find_triple_bottom(df, threshold) ==
  IF Len(df.bars) < 15 THEN Returned(<<>>)
  ELSE IF "low" \notin df.columns THEN KeyError
  ELSE LET low == Col(df, "low")
           Hits(troughs) ==
             SelectSeq(Range(0, Len(troughs) - 2), LAMBDA i : TripleTest(low, troughs, i, threshold))
           Records(troughs, hits) ==
             IF Len(troughs) < 3 THEN Returned(<<>>)
             ELSE Returned([k \in 1..Len(hits) |->
                    [troughs |-> <<troughs[hits[k] + 1], troughs[hits[k] + 2], troughs[hits[k] + 3]>>,
                     price |-> TripleMean(low, troughs, hits[k])]])
           Patterns(troughs) == Records(troughs, Hits(troughs))
       IN  Patterns(_find_troughs(low, 5))

(***************************************************************************)
(* Candlestick matchers.  Each scans the bars from a first index on; the   *)
(* whole body of an iteration is inside `try ... except: pass`, so a       *)
(* missing column only loses the detection of that iteration.  A test      *)
(* below yields the detection's type, or "" when the iteration appends     *)
(* nothing.                                                                *)
(***************************************************************************)
BarAt(df, i) == df.bars[i + 1]

Has(df, cols) == cols \subseteq df.columns

Body(bar) == RAbs(RSub(bar.close, bar.open))

Bullish(bar) == RGt(bar.close, bar.open)

Bearish(bar) == RLt(bar.close, bar.open)

UpperShadow(bar) == RSub(bar.high, PyMax(bar.open, bar.close))

LowerShadow(bar) == RSub(PyMin(bar.open, bar.close), bar.low)

\* for i in range(first, len(self.df)): one {'index': i, 'type': ...} per
\* iteration whose test names a type.
Scan(df, first, Type(_)) ==
  LET hits == SelectSeq(Range(first, Len(df.bars)), LAMBDA i : Type(i) # "")
  IN  [k \in 1..Len(hits) |-> [index |-> hits[k], type |-> Type(hits[k])]]

HammerType(df, i) ==
  LET candle == BarAt(df, i)
      body == Body(candle)
  IN  IF ~Has(df, Columns) \/ RSub(candle.high, candle.low) = Zero THEN ""
      ELSE IF /\ RGt(LowerShadow(candle), RMul(R(2), body))
              /\ RLt(UpperShadow(candle), RMul(Frac(1, 2), body)) THEN "hammer"
      ELSE IF /\ RGt(UpperShadow(candle), RMul(R(2), body))
              /\ RLt(LowerShadow(candle), RMul(Frac(1, 2), body)) THEN "inverted_hammer"
      ELSE ""

find_hammer_patterns(df) ==
  IF Len(df.bars) < 2 THEN Returned(<<>>)
  ELSE LET Strength(candle, type) ==
             IF RGt(Body(candle), Zero)
             THEN RDiv(IF type = "hammer" THEN LowerShadow(candle) ELSE UpperShadow(candle),
                       Body(candle))
             ELSE Zero
           Records(hits) ==
             [k \in 1..Len(hits) |->
                [index |-> hits[k].index, type |-> hits[k].type,
                 strength |-> Strength(BarAt(df, hits[k].index), hits[k].type)]]
       IN  Returned(Records(Scan(df, 0, LAMBDA i : HammerType(df, i))))

find_bullish_engulfing(df) ==
  IF Len(df.bars) < 2 THEN Returned(<<>>)
  ELSE Returned(Scan(df, 1, LAMBDA i :
         LET prev == BarAt(df, i - 1)
             curr == BarAt(df, i)
         IN  IF /\ Has(df, {"open", "close"})
                /\ Bearish(prev) /\ Bullish(curr)
                /\ RLe(curr.open, prev.close) /\ RGe(curr.close, prev.open)
             THEN "bullish_engulfing" ELSE ""))

find_bearish_engulfing(df) ==
  IF Len(df.bars) < 2 THEN Returned(<<>>)
  ELSE Returned(Scan(df, 1, LAMBDA i :
         LET prev == BarAt(df, i - 1)
             curr == BarAt(df, i)
         IN  IF /\ Has(df, {"open", "close"})
                /\ Bullish(prev) /\ Bearish(curr)
                /\ RGe(curr.open, prev.close) /\ RLe(curr.close, prev.open)
             THEN "bearish_engulfing" ELSE ""))

\* Lines 909-923: first_bearish and second_small and third_bullish and
\* third_large and recovery.
MorningStarTest(df, i) ==
  LET first == BarAt(df, i - 2)
      second == BarAt(df, i - 1)
      third == BarAt(df, i)
  IN  /\ Has(df, {"open", "close"})
      /\ Bearish(first)
      /\ RLt(Body(second), RMul(Body(first), Frac(3, 10)))
      /\ Bullish(third)
      /\ RGt(Body(third), RMul(Body(first), Frac(6, 10)))
      /\ RGt(third.close, RDiv(RAdd(first.open, first.close), R(2)))

find_morning_star(df) ==
  IF Len(df.bars) < 3 THEN Returned(<<>>)
  ELSE Returned(Scan(df, 2, LAMBDA i : IF MorningStarTest(df, i) THEN "morning_star" ELSE ""))

\* Lines 947-961: first_bullish and second_small and third_bearish and
\* third_large and decline.
EveningStarTest(df, i) ==
  LET first == BarAt(df, i - 2)
      second == BarAt(df, i - 1)
      third == BarAt(df, i)
  IN  /\ Has(df, {"open", "close"})
      /\ Bullish(first)
      /\ RLt(Body(second), RMul(Body(first), Frac(3, 10)))
      /\ Bearish(third)
      /\ RGt(Body(third), RMul(Body(first), Frac(6, 10)))
      /\ RLt(third.close, RDiv(RAdd(first.open, first.close), R(2)))

find_evening_star(df) ==
  IF Len(df.bars) < 3 THEN Returned(<<>>)
  ELSE Returned(Scan(df, 2, LAMBDA i : IF EveningStarTest(df, i) THEN "evening_star" ELSE ""))

DojiType(df, i) ==
  LET candle == BarAt(df, i)
      total_range == RSub(candle.high, candle.low)
  IN  IF ~Has(df, Columns) \/ total_range = Zero THEN ""
      ELSE IF ~RLt(RDiv(Body(candle), total_range), Frac(1, 10)) THEN ""
      ELSE IF RGt(UpperShadow(candle), RMul(R(2), LowerShadow(candle))) THEN "dragonfly_doji"
      ELSE IF RGt(LowerShadow(candle), RMul(R(2), UpperShadow(candle))) THEN "gravestone_doji"
      ELSE "standard_doji"

\* find_doji_patterns with a scan that ends at the first bar of zero range.
DojiStopsAtFlat(df) ==
  IF Len(df.bars) < 1 THEN Returned(<<>>)
  ELSE Returned(Scan(df, 0, LAMBDA i :
         IF \E j \in 0..i : BarAt(df, j).high = BarAt(df, j).low THEN ""
         ELSE DojiType(df, i)))

find_doji_patterns(df) ==
  IF Len(df.bars) < 1 THEN Returned(<<>>)
  ELSE Returned(Scan(df, 0, LAMBDA i : DojiType(df, i)))

find_shooting_star(df) ==
  IF Len(df.bars) < 2 THEN Returned(<<>>)
  ELSE Returned(Scan(df, 1, LAMBDA i :
         LET prev == BarAt(df, i - 1)
             curr == BarAt(df, i)
         IN  IF /\ Has(df, Columns)
                /\ RGt(UpperShadow(curr), RMul(R(2), Body(curr)))
                /\ RLt(LowerShadow(curr), RMul(Frac(1, 2), Body(curr)))
                /\ Bearish(curr) /\ Bullish(prev)
             THEN "shooting_star" ELSE ""))

find_piercing_pattern(df) ==
  IF Len(df.bars) < 2 THEN Returned(<<>>)
  ELSE Returned(Scan(df, 1, LAMBDA i :
         LET prev == BarAt(df, i - 1)
             curr == BarAt(df, i)
             prev_mid == RDiv(RAdd(prev.open, prev.close), R(2))
         IN  IF /\ Has(df, {"open", "close"})
                /\ Bearish(prev) /\ Bullish(curr)
                /\ RLt(curr.open, prev.close)
                /\ RGt(curr.close, prev_mid) /\ RLt(curr.close, prev.open)
             THEN "piercing_pattern" ELSE ""))

find_dark_cloud_cover(df) ==
  IF Len(df.bars) < 2 THEN Returned(<<>>)
  ELSE Returned(Scan(df, 1, LAMBDA i :
         LET prev == BarAt(df, i - 1)
             curr == BarAt(df, i)
             prev_mid == RDiv(RAdd(prev.open, prev.close), R(2))
         IN  IF /\ Has(df, {"open", "close"})
                /\ Bullish(prev) /\ Bearish(curr)
                /\ RGt(curr.open, prev.close)
                /\ RLt(curr.close, prev_mid) /\ RGt(curr.close, prev.open)
             THEN "dark_cloud_cover" ELSE ""))

find_three_white_soldiers(df) ==
  IF Len(df.bars) < 3 THEN Returned(<<>>)
  ELSE Returned(Scan(df, 2, LAMBDA i :
         LET first == BarAt(df, i - 2)
             second == BarAt(df, i - 1)
             third == BarAt(df, i)
         IN  IF /\ Has(df, {"open", "close"})
                /\ Bullish(first) /\ Bullish(second) /\ Bullish(third)
                /\ RGt(second.close, first.close) /\ RGt(third.close, second.close)
                /\ RLt(first.open, second.open) /\ RLt(second.open, first.close)
                /\ RLt(second.open, third.open) /\ RLt(third.open, second.close)
             THEN "three_white_soldiers" ELSE ""))

find_three_black_crows(df) ==
  IF Len(df.bars) < 3 THEN Returned(<<>>)
  ELSE Returned(Scan(df, 2, LAMBDA i :
         LET first == BarAt(df, i - 2)
             second == BarAt(df, i - 1)
             third == BarAt(df, i)
         IN  IF /\ Has(df, {"open", "close"})
                /\ Bearish(first) /\ Bearish(second) /\ Bearish(third)
                /\ RLt(second.close, first.close) /\ RLt(third.close, second.close)
                /\ RLt(first.close, second.open) /\ RLt(second.open, first.open)
                /\ RLt(second.close, third.open) /\ RLt(third.open, second.open)
             THEN "three_black_crows" ELSE ""))

\* Lines 1186-1198: the top test reads `high` first; the bottom test is
\* reached only when the top test raised nothing.
TweezerType(df, i) ==
  LET prev == BarAt(df, i - 1)
      curr == BarAt(df, i)
      body_ok == Has(df, {"open", "close"})
      near_high == RelDiffBelow(prev.high, curr.high, Frac(2, 1000))
  IN  IF ~Has(df, {"high"}) THEN ""
      ELSE IF near_high /\ ~body_ok THEN ""
      ELSE IF near_high /\ Bullish(prev) /\ Bearish(curr) THEN "tweezer_top"
      ELSE IF /\ Has(df, {"low"})
              /\ RelDiffBelow(prev.low, curr.low, Frac(2, 1000))
              /\ body_ok
              /\ Bearish(prev) /\ Bullish(curr) THEN "tweezer_bottom"
      ELSE ""

find_tweezer_patterns(df) ==
  IF Len(df.bars) < 2 THEN Returned(<<>>)
  ELSE Returned(Scan(df, 1, LAMBDA i : TweezerType(df, i)))

HaramiType(df, i) ==
  LET prev == BarAt(df, i - 1)
      curr == BarAt(df, i)
      inside == /\ RGt(PyMin(curr.open, curr.close), PyMin(prev.open, prev.close))
                /\ RLt(PyMax(curr.open, curr.close), PyMax(prev.open, prev.close))
      smaller == RLt(Body(curr), RMul(Body(prev), Frac(1, 2)))
  IN  IF ~(Has(df, {"open", "close"}) /\ inside /\ smaller) THEN ""
      ELSE IF Bearish(prev) /\ Bullish(curr) THEN "bullish_harami"
      ELSE IF Bullish(prev) /\ Bearish(curr) THEN "bearish_harami"
      ELSE ""

find_harami_patterns(df) ==
  IF Len(df.bars) < 2 THEN Returned(<<>>)
  ELSE Returned(Scan(df, 1, LAMBDA i : HaramiType(df, i)))

(***************************************************************************)
(* Sliding-window matchers.  np.polyfit is the exact least-squares fit;    *)
(* the rounding of the floating-point solver is not modelled.              *)
(***************************************************************************)
\* s[a:b] of Python for 0 <= a: the positions a .. b-1 that exist.
Slice(s, a, b) ==
  LET hi == IF b > Len(s) THEN Len(s) ELSE b
  IN  IF a >= hi THEN <<>> ELSE SubSeq(s, a + 1, hi)

RECURSIVE RSum(_)
RSum(s) == IF s = <<>> THEN Zero ELSE RAdd(Head(s), RSum(Tail(s)))

RECURSIVE RMaxOf(_)
RMaxOf(s) == IF Len(s) = 1 THEN s[1] ELSE PyMax(s[1], RMaxOf(Tail(s)))

RECURSIVE RMinOf(_)
RMinOf(s) == IF Len(s) = 1 THEN s[1] ELSE PyMin(s[1], RMinOf(Tail(s)))

\* np.polyfit(x, y, 1)[0] for at least two points with distinct x.
PolySlope(x, y) ==
  LET n == R(Len(x))
      xs == [i \in 1..Len(x) |-> R(x[i])]
      sx == RSum(xs)
      sy == RSum(y)
      sxy == RSum([i \in 1..Len(x) |-> RMul(xs[i], y[i])])
      sxx == RSum([i \in 1..Len(x) |-> RMul(xs[i], xs[i])])
  IN  RDiv(RSub(RMul(n, sxy), RMul(sx, sy)), RSub(RMul(n, sxx), RMul(sx, sx)))

\* np.polyfit(np.arange(len(y)), y, 1)[0]
Slope(y) == PolySlope(Range(0, Len(y)), y)

\* np.polyfit(np.arange(len(y)), y, 2)[0] for at least three points: the
\* projection of y on the quadratic orthogonal to 1 and x on 0..n-1,
\* q(x) = (x - (n-1)/2)^2 - (n^2 - 1)/12.
Curvature(y) ==
  LET n == Len(y)
      q == [i \in 1..n |->
              RSub(RMul(Frac(2 * (i - 1) - (n - 1), 2), Frac(2 * (i - 1) - (n - 1), 2)),
                   Frac(n * n - 1, 12))]
  IN  RDiv(RSum([i \in 1..n |-> RMul(q[i], y[i])]), RSum([i \in 1..n |-> RMul(q[i], q[i])]))

\* _calculate_slope(list(zip(positions, prices)))
_calculate_slope(positions, prices) ==
  IF Len(positions) < 2 THEN Zero ELSE PolySlope(positions, prices)

\* for i in range(first, len(self.df)): the record of every iteration that
\* passes its test.
Windows(df, first, Test(_), Record(_)) ==
  LET hits == SelectSeq(Range(first, Len(df.bars)), Test)
  IN  [k \in 1..Len(hits) |-> Record(hits[k])]

Highs(df, a, b) == Slice(Col(df, "high"), a, b)

Lows(df, a, b) == Slice(Col(df, "low"), a, b)

Closes(df, a, b) == Slice(Col(df, "close"), a, b)

\* Lines 146-168: the triangle the slopes of a window show ("" for none).
\* x = np.arange(window) is empty for window <= 0 and polyfit refuses it.
TriangleType(df, window, high_slope, low_slope) ==
  LET small == Frac(1, 1000)
  IN  IF window < 2 \/ ~Has(df, {"high", "low"}) THEN ""
      ELSE IF RLt(RAbs(high_slope), small) /\ RGt(low_slope, small) THEN "ascending_triangle"
      ELSE IF RLt(high_slope, RNeg(small)) /\ RLt(RAbs(low_slope), small) THEN "descending_triangle"
      ELSE IF RLt(high_slope, RNeg(small)) /\ RGt(low_slope, small) THEN "symmetric_triangle"
      ELSE ""

find_triangle_patterns(df, window) ==
  LET Record(i, high_slope, low_slope) ==
        [index |-> i, type |-> TriangleType(df, window, high_slope, low_slope),
         high_slope |-> high_slope, low_slope |-> low_slope]
      Triangle(i) == Record(i, Slope(Highs(df, i - window, i)), Slope(Lows(df, i - window, i)))
  IN  IF Len(df.bars) < window THEN Returned(<<>>)
      ELSE Returned(Windows(df, window, LAMBDA i : Triangle(i).type # "", Triangle))

\* Lines 284-297, for window >= 3 (a parabola through fewer points is not
\* determined by them).
find_rounding_bottom(df, window) ==
  IF Len(df.bars) < window THEN Returned(<<>>)
  ELSE Returned(Windows(df, window,
         LAMBDA i : Has(df, {"low"}) /\ RGt(Curvature(Lows(df, i - window, i)), Frac(1, 100000)),
         LAMBDA i : [index |-> i, start |-> i - window,
                     curvature |-> Curvature(Lows(df, i - window, i))]))

\* Lines 313-327: the handle test on the bars after a cup.
HandleTest(df, cup) ==
  LET handle_high == RMaxOf(Highs(df, cup.index, cup.index + 10))
      handle_low == RMinOf(Lows(df, cup.index, cup.index + 10))
  IN  /\ Has(df, {"high", "low"})
      /\ Len(Slice(df.bars, cup.index, cup.index + 10)) >= 5
      /\ handle_high # Zero
      /\ RLt(RDiv(RSub(handle_high, handle_low), handle_high), Frac(15, 100))

RECURSIVE Reverse(_)
Reverse(s) == IF s = <<>> THEN <<>> ELSE Reverse(Tail(s)) \o <<Head(s)>>

\* find_cup_and_handle going through the cups from the last to the first.
CupAndHandleNewestFirst(df, window) ==
  IF Len(df.bars) < window + 10 THEN Returned(<<>>)
  ELSE LET Records(cups) ==
             [k \in 1..Len(cups) |->
                [cup_start |-> cups[k].start, cup_end |-> cups[k].index,
                 handle_end |-> cups[k].index + 10]]
       IN  Returned(Records(SelectSeq(Reverse(find_rounding_bottom(df, window).patterns),
                                      LAMBDA cup : HandleTest(df, cup))))

find_cup_and_handle(df, window) ==
  IF Len(df.bars) < window + 10 THEN Returned(<<>>)
  ELSE LET Records(cups) ==
             [k \in 1..Len(cups) |->
                [cup_start |-> cups[k].start, cup_end |-> cups[k].index,
                 handle_end |-> cups[k].index + 10]]
       IN  Returned(Records(SelectSeq(find_rounding_bottom(df, window).patterns,
                                      LAMBDA cup : HandleTest(df, cup))))

find_ascending_wedge(df, window) ==
  LET Record(i, high_slope, low_slope) ==
        [index |-> i, start |-> i - window, high_slope |-> high_slope, low_slope |-> low_slope]
      Wedge(i) == Record(i, Slope(Highs(df, i - window, i)), Slope(Lows(df, i - window, i)))
      Test(w) ==
        /\ Has(df, {"high", "low"})
        /\ RGt(w.high_slope, Zero) /\ RGt(w.low_slope, Zero)
        /\ RLt(w.high_slope, RMul(w.low_slope, R(2)))
  IN  IF Len(df.bars) < window THEN Returned(<<>>)
      ELSE Returned(Windows(df, window, LAMBDA i : Test(Wedge(i)), Wedge))

find_descending_wedge(df, window) ==
  LET Record(i, high_slope, low_slope) ==
        [index |-> i, start |-> i - window, high_slope |-> high_slope, low_slope |-> low_slope]
      Wedge(i) == Record(i, Slope(Highs(df, i - window, i)), Slope(Lows(df, i - window, i)))
      Test(w) ==
        /\ Has(df, {"high", "low"})
        /\ RLt(w.high_slope, Zero) /\ RLt(w.low_slope, Zero)
        /\ RLt(w.low_slope, RMul(w.high_slope, R(2)))
  IN  IF Len(df.bars) < window THEN Returned(<<>>)
      ELSE Returned(Windows(df, window, LAMBDA i : Test(Wedge(i)), Wedge))

\* Lines 401-409 (433-441): the slopes through the peaks and the troughs of
\* a window, when it has two of each.
WedgeSlopes(df, window, i) ==
  LET high == Highs(df, i - window, i)
      low == Lows(df, i - window, i)
      Slopes(peaks, troughs) ==
        IF Has(df, {"high", "low"}) /\ Len(peaks) >= 2 /\ Len(troughs) >= 2
        THEN [found |-> TRUE,
              peak_slope |->
                _calculate_slope(peaks, [k \in 1..Len(peaks) |-> At(high, peaks[k])]),
              trough_slope |->
                _calculate_slope(troughs, [k \in 1..Len(troughs) |-> At(low, troughs[k])])]
        ELSE [found |-> FALSE, peak_slope |-> Zero, trough_slope |-> Zero]
  IN  Slopes(_find_peaks(high, 3), _find_troughs(low, 3))

find_rising_wedge(df, window) ==
  LET Test(w) ==
        /\ w.found
        /\ RGt(w.peak_slope, Zero) /\ RGt(w.trough_slope, Zero)
        /\ RGt(w.trough_slope, w.peak_slope)
  IN  IF Len(df.bars) < window THEN Returned(<<>>)
      ELSE Returned(Windows(df, window,
             LAMBDA i : Test(WedgeSlopes(df, window, i)),
             LAMBDA i : [index |-> i, start |-> i - window, type |-> "rising_wedge"]))

find_falling_wedge(df, window) ==
  LET Test(w) ==
        /\ w.found
        /\ RLt(w.peak_slope, Zero) /\ RLt(w.trough_slope, Zero)
        /\ RLt(w.peak_slope, w.trough_slope)
  IN  IF Len(df.bars) < window THEN Returned(<<>>)
      ELSE Returned(Windows(df, window,
             LAMBDA i : Test(WedgeSlopes(df, window, i)),
             LAMBDA i : [index |-> i, start |-> i - window, type |-> "falling_wedge"]))

\* (pole['close'].iloc[-1] - pole['close'].iloc[0]) / pole['close'].iloc[0]
\* of the five bars before a window; a zero first close gives inf or nan,
\* which passes no test (the record's `defined` is FALSE).
PoleChange(df, window, i) ==
  LET pole == Closes(df, i - window - 5, i - window)
  IN  IF ~Has(df, {"close"}) \/ pole[1] = Zero THEN [defined |-> FALSE, value |-> Zero]
      ELSE [defined |-> TRUE, value |-> RDiv(RSub(pole[Len(pole)], pole[1]), pole[1])]

FlagType(df, window, i) ==
  LET Type(change, flag_slope) ==
        IF ~change.defined THEN ""
        ELSE IF RGt(change.value, Frac(5, 100))
          THEN IF RLt(Frac(-2, 1000), flag_slope) /\ RLt(flag_slope, Zero)
               THEN "bullish_flag" ELSE ""
        ELSE IF RLt(change.value, Frac(-5, 100))
          THEN IF RLt(Zero, flag_slope) /\ RLt(flag_slope, Frac(2, 1000))
               THEN "bearish_flag" ELSE ""
        ELSE ""
  IN  Type(PoleChange(df, window, i), Slope(Closes(df, i - window, i)))

find_flag_pattern(df, window) ==
  IF Len(df.bars) < window + 5 THEN Returned(<<>>)
  ELSE Returned(Windows(df, window + 5,
         LAMBDA i : FlagType(df, window, i) # "",
         LAMBDA i : [index |-> i, type |-> FlagType(df, window, i),
                     pole_start |-> i - window - 5]))

PennantType(df, window, i) ==
  LET Type(change, highs, lows) ==
        IF ~change.defined \/ ~RGt(RAbs(change.value), Frac(5, 100)) THEN ""
        ELSE IF ~Has(df, {"high", "low"}) THEN ""
        ELSE IF ~RLt(RSub(highs[Len(highs)], lows[Len(lows)]),
                     RMul(RSub(highs[1], lows[1]), Frac(1, 2))) THEN ""
        ELSE IF RGt(change.value, Zero) THEN "bullish_pennant"
        ELSE "bearish_pennant"
  IN  Type(PoleChange(df, window, i), Highs(df, i - window, i), Lows(df, i - window, i))

find_pennant_pattern(df, window) ==
  IF Len(df.bars) < window + 5 THEN Returned(<<>>)
  ELSE Returned(Windows(df, window + 5,
         LAMBDA i : PennantType(df, window, i) # "",
         LAMBDA i : [index |-> i, type |-> PennantType(df, window, i),
                     pole_start |-> i - window - 5]))

ChannelType(df, high_slope, low_slope) ==
  LET small == Frac(1, 1000)
      Type(slope_diff) ==
        IF ~Has(df, {"high", "low"}) \/ ~RLt(slope_diff, Frac(3, 10)) THEN ""
        ELSE IF RGt(high_slope, small) /\ RGt(low_slope, small) THEN "ascending_channel"
        ELSE IF RLt(high_slope, RNeg(small)) /\ RLt(low_slope, RNeg(small))
          THEN "descending_channel"
        ELSE ""
  IN  Type(IF high_slope # Zero
           THEN RDiv(RAbs(RSub(high_slope, low_slope)), RAbs(high_slope))
           ELSE R(1))

find_channel_patterns(df, window) ==
  LET Channel(i) ==
        [index |-> i,
         type |-> ChannelType(df, Slope(Highs(df, i - window, i)), Slope(Lows(df, i - window, i))),
         start |-> i - window]
  IN  IF Len(df.bars) < window THEN Returned(<<>>)
      ELSE Returned(Windows(df, window, LAMBDA i : Channel(i).type # "", Channel))

find_bump_and_run(df, window) ==
  LET Test(lead_slope, bump_slope, run_slope) ==
        /\ Has(df, {"close"})
        /\ RGt(lead_slope, Zero)
        /\ RGt(bump_slope, RMul(lead_slope, R(2)))
        /\ RLt(run_slope, Zero)
      Bump(close) ==
        Test(Slope(Slice(close, 0, window \div 3)),
             Slope(Slice(close, window \div 3, (2 * window) \div 3)),
             Slope(Slice(close, (2 * window) \div 3, window)))
  IN  IF Len(df.bars) < window THEN Returned(<<>>)
      ELSE Returned(Windows(df, window,
             LAMBDA i : Bump(Closes(df, i - window, i)),
             LAMBDA i : [index |-> i, start |-> i - window, type |-> "bump_and_run_reversal"]))

(***************************************************************************)
(* Matchers on the extrema of the whole series.                            *)
(***************************************************************************)
find_dragon_pattern(df) ==
  IF Len(df.bars) < 20 THEN Returned(<<>>)
  ELSE IF ~Has(df, {"low"}) THEN KeyError
  ELSE LET low == Col(df, "low")
           Hits(troughs) ==
             SelectSeq(Range(0, Len(troughs) - 2), LAMBDA i :
               /\ RGt(At(low, troughs[i + 2]), RMul(At(low, troughs[i + 1]), Frac(98, 100)))
               /\ RGt(At(low, troughs[i + 3]), RMul(At(low, troughs[i + 2]), Frac(98, 100))))
           Records(troughs, hits) ==
             [k \in 1..Len(hits) |->
                [troughs |-> <<troughs[hits[k] + 1], troughs[hits[k] + 2], troughs[hits[k] + 3]>>,
                 type |-> "dragon"]]
           Patterns(troughs) == Records(troughs, Hits(troughs))
       IN  Returned(Patterns(_find_troughs(low, 4)))

\* Lines 672-692: the first bottom has bars on both sides, the second sits
\* in an upward parabola, and the two lows are within threshold.
AdamEveTest(low, troughs, i, threshold) ==
  LET idx1 == troughs[i + 1]
      idx2 == troughs[i + 2]
      before1 == Slice(low, IF idx1 - 3 > 0 THEN idx1 - 3 ELSE 0, idx1)
      after1 == Slice(low, idx1 + 1, idx1 + 4)
      bottom2_segment == Slice(low, IF idx2 - 5 > 0 THEN idx2 - 5 ELSE 0, idx2 + 6)
  IN  /\ Len(bottom2_segment) >= 5
      /\ Len(before1) > 0 /\ Len(after1) > 0
      /\ RGt(Curvature(bottom2_segment), Zero)
      /\ RelDiffBelow(At(low, idx1), At(low, idx2), threshold)

find_adam_eve_pattern(df, threshold) ==
  IF Len(df.bars) < 20 THEN Returned(<<>>)
  ELSE IF ~Has(df, {"low"}) THEN KeyError
  ELSE LET low == Col(df, "low")
           Hits(troughs) ==
             SelectSeq(Range(0, Len(troughs) - 1),
                       LAMBDA i : AdamEveTest(low, troughs, i, threshold))
           Records(troughs, hits) ==
             IF Len(troughs) < 2 THEN Returned(<<>>)
             ELSE Returned([k \in 1..Len(hits) |->
                    [adam |-> troughs[hits[k] + 1], eve |-> troughs[hits[k] + 2],
                     type |-> "adam_eve_double_bottom"]])
           Patterns(troughs) == Records(troughs, Hits(troughs))
       IN  Patterns(_find_troughs(low, 5))

\* Lines 714-717: the ranges of the five bars before each bar j >= 5 of a
\* window.
MegaphoneRanges(df, window, i) ==
  [j \in 1..(window - 5) |->
     RSub(RMaxOf(Highs(df, i - window + j - 1, i - window + j + 4)),
          RMinOf(Lows(df, i - window + j - 1, i - window + j + 4)))]

find_megaphone_pattern(df, window) ==
  IF Len(df.bars) < window THEN Returned(<<>>)
  ELSE Returned(Windows(df, window,
         LAMBDA i :
           /\ Has(df, {"high", "low"})
           /\ window - 5 >= 3
           /\ RGt(Slope(MegaphoneRanges(df, window, i)), Zero),
         LAMBDA i : [index |-> i, start |-> i - window, type |-> "megaphone"]))

\* Lines 744-756: a drop of more than 10% over the five bars before the
\* window, a bounce below 5% inside it and a lower close over its last
\* three bars.
DeadCatTest(df, window, i) ==
  LET drop == PoleChange(df, window, i)
      bounce == Closes(df, i - window, i)
      after == Closes(df, i - 3, i)
      bounce_pct == RDiv(RSub(RMaxOf(bounce), bounce[1]), bounce[1])
  IN  /\ drop.defined
      /\ bounce[1] # Zero
      /\ RLt(drop.value, Frac(-10, 100))
      /\ RLt(Zero, bounce_pct) /\ RLt(bounce_pct, Frac(5, 100))
      /\ RLt(after[Len(after)], after[1])

find_dead_cat_bounce(df, window) ==
  IF Len(df.bars) < window + 5 THEN Returned(<<>>)
  ELSE Returned(Windows(df, window + 5,
         LAMBDA i : DeadCatTest(df, window, i),
         LAMBDA i : [index |-> i, drop_start |-> i - window - 5,
                     bounce_start |-> i - window, type |-> "dead_cat_bounce"]))

\* Lines 777-779: the peaks, then the troughs, sorted by position (the sort
\* is stable: a peak precedes a trough of the same bar).
RECURSIVE MergePoints(_, _)
MergePoints(ps, ts) ==
  IF ps = <<>> THEN ts
  ELSE IF ts = <<>> THEN ps
  ELSE IF Head(ps).pos <= Head(ts).pos THEN <<Head(ps)>> \o MergePoints(Tail(ps), ts)
  ELSE <<Head(ts)>> \o MergePoints(ps, Tail(ts))

\* Lines 783-791: alternating kinds and |AB| within threshold of |CD|.
AbcdTest(pts, i, threshold) ==
  LET A == pts[i + 1]
      B == pts[i + 2]
      C == pts[i + 3]
      D == pts[i + 4]
      AB == RAbs(RSub(B.price, A.price))
      CD == RAbs(RSub(D.price, C.price))
  IN  /\ A.kind # B.kind /\ B.kind # C.kind /\ C.kind # D.kind
      /\ RelDiffBelow(AB, CD, threshold)

find_abcd_pattern(df, threshold) ==
  IF Len(df.bars) < 20 THEN Returned(<<>>)
  ELSE IF ~Has(df, {"high", "low"}) THEN KeyError
  ELSE LET high == Col(df, "high")
           low == Col(df, "low")
           Points(peaks, troughs) ==
             MergePoints([k \in 1..Len(peaks) |->
                            [pos |-> peaks[k], kind |-> "peak", price |-> At(high, peaks[k])]],
                         [k \in 1..Len(troughs) |->
                            [pos |-> troughs[k], kind |-> "trough", price |-> At(low, troughs[k])]])
           Hits(all_points) ==
             SelectSeq(Range(0, Len(all_points) - 3),
                       LAMBDA i : AbcdTest(all_points, i, threshold))
           Records(all_points, hits) ==
             [k \in 1..Len(hits) |->
                [A |-> all_points[hits[k] + 1].pos, B |-> all_points[hits[k] + 2].pos,
                 C |-> all_points[hits[k] + 3].pos, D |-> all_points[hits[k] + 4].pos,
                 type |-> "abcd_pattern"]]
           Patterns(all_points) == Records(all_points, Hits(all_points))
       IN  Returned(Patterns(Points(_find_peaks(high, 4), _find_troughs(low, 4))))

\* Lines 811-821: at least two highs within threshold of the window's
\* maximum, two lows within threshold of its minimum, and a range between
\* 3% and 15% of the minimum.
RectangleTest(df, window, threshold, i) ==
  LET highs == Highs(df, i - window, i)
      lows == Lows(df, i - window, i)
      resistance == RMaxOf(highs)
      support == RMinOf(lows)
      resistance_touches ==
        Cardinality({k \in 1..Len(highs) : RelDiffBelow(resistance, highs[k], threshold)})
      support_touches ==
        Cardinality({k \in 1..Len(lows) : RelDiffBelow(support, lows[k], threshold)})
      price_range == RDiv(RSub(resistance, support), support)
  IN  /\ Has(df, {"high", "low"})
      /\ support # Zero
      /\ resistance_touches >= 2 /\ support_touches >= 2
      /\ RLt(Frac(3, 100), price_range) /\ RLt(price_range, Frac(15, 100))

\* find_rectangle_pattern with a loop that also evaluates the window of the
\* last `window` bars.
RectangleLastWindow(df, window, threshold) ==
  LET Record(i) ==
        [index |-> i, start |-> i - window,
         resistance |-> RMaxOf(Highs(df, i - window, i)),
         support |-> RMinOf(Lows(df, i - window, i)), type |-> "rectangle"]
      Records(hits) == [k \in 1..Len(hits) |-> Record(hits[k])]
  IN  IF Len(df.bars) < window THEN Returned(<<>>)
      ELSE Returned(Records(SelectSeq(Range(window, Len(df.bars) + 1),
                                      LAMBDA i : RectangleTest(df, window, threshold, i))))

find_rectangle_pattern(df, window, threshold) ==
  IF Len(df.bars) < window THEN Returned(<<>>)
  ELSE Returned(Windows(df, window,
         LAMBDA i : RectangleTest(df, window, threshold, i),
         LAMBDA i : [index |-> i, start |-> i - window,
                     resistance |-> RMaxOf(Highs(df, i - window, i)),
                     support |-> RMinOf(Lows(df, i - window, i)), type |-> "rectangle"]))

(***************************************************************************)
(* detect_all_patterns.                                                    *)
(***************************************************************************)
\* The result keys and their matchers in the order of lines 1250-1290.
Matchers ==
  <<[key |-> "Double Tops", fn |-> "find_double_top"], [key |-> "Double Bottoms", fn |-> "find_double_bottom"],
    [key |-> "Head & Shoulders", fn |-> "find_head_and_shoulders"], [key |-> "Triangles", fn |-> "find_triangle_patterns"],
    [key |-> "Hammers", fn |-> "find_hammer_patterns"], [key |-> "Triple Tops", fn |-> "find_triple_top"],
    [key |-> "Triple Bottoms", fn |-> "find_triple_bottom"], [key |-> "Rounding Bottom", fn |-> "find_rounding_bottom"],
    [key |-> "Cup & Handle", fn |-> "find_cup_and_handle"], [key |-> "Ascending Wedge", fn |-> "find_ascending_wedge"],
    [key |-> "Descending Wedge", fn |-> "find_descending_wedge"], [key |-> "Rising Wedge", fn |-> "find_rising_wedge"],
    [key |-> "Falling Wedge", fn |-> "find_falling_wedge"], [key |-> "Flag Patterns", fn |-> "find_flag_pattern"],
    [key |-> "Pennants", fn |-> "find_pennant_pattern"], [key |-> "Channels", fn |-> "find_channel_patterns"],
    [key |-> "Bump & Run", fn |-> "find_bump_and_run"], [key |-> "Dragon", fn |-> "find_dragon_pattern"],
    [key |-> "Inv H&S", fn |-> "find_inverse_head_shoulders"], [key |-> "Adam & Eve", fn |-> "find_adam_eve_pattern"],
    [key |-> "Megaphone", fn |-> "find_megaphone_pattern"], [key |-> "Dead Cat Bounce", fn |-> "find_dead_cat_bounce"],
    [key |-> "ABCD Pattern", fn |-> "find_abcd_pattern"], [key |-> "Rectangle", fn |-> "find_rectangle_pattern"],
    [key |-> "Bullish Engulfing", fn |-> "find_bullish_engulfing"], [key |-> "Bearish Engulfing", fn |-> "find_bearish_engulfing"],
    [key |-> "Morning Star", fn |-> "find_morning_star"], [key |-> "Evening Star", fn |-> "find_evening_star"],
    [key |-> "Doji", fn |-> "find_doji_patterns"], [key |-> "Shooting Star", fn |-> "find_shooting_star"],
    [key |-> "Piercing Pattern", fn |-> "find_piercing_pattern"], [key |-> "Dark Cloud", fn |-> "find_dark_cloud_cover"],
    [key |-> "3 White Soldiers", fn |-> "find_three_white_soldiers"], [key |-> "3 Black Crows", fn |-> "find_three_black_crows"],
    [key |-> "Tweezers", fn |-> "find_tweezer_patterns"], [key |-> "Harami", fn |-> "find_harami_patterns"]>>

\* A matcher called with its default parameters.
RunMatcher(fn, df) ==
  CASE fn = "find_double_top" -> find_double_top(df, DefaultThreshold)
    [] fn = "find_double_bottom" -> find_double_bottom(df, DefaultThreshold)
    [] fn = "find_head_and_shoulders" -> find_head_and_shoulders(df, DefaultThreshold)
    [] fn = "find_triangle_patterns" -> find_triangle_patterns(df, 20)
    [] fn = "find_hammer_patterns" -> find_hammer_patterns(df)
    [] fn = "find_triple_top" -> find_triple_top(df, DefaultThreshold)
    [] fn = "find_triple_bottom" -> find_triple_bottom(df, DefaultThreshold)
    [] fn = "find_rounding_bottom" -> find_rounding_bottom(df, 20)
    [] fn = "find_cup_and_handle" -> find_cup_and_handle(df, 30)
    [] fn = "find_ascending_wedge" -> find_ascending_wedge(df, 15)
    [] fn = "find_descending_wedge" -> find_descending_wedge(df, 15)
    [] fn = "find_rising_wedge" -> find_rising_wedge(df, 15)
    [] fn = "find_falling_wedge" -> find_falling_wedge(df, 15)
    [] fn = "find_flag_pattern" -> find_flag_pattern(df, 10)
    [] fn = "find_pennant_pattern" -> find_pennant_pattern(df, 10)
    [] fn = "find_channel_patterns" -> find_channel_patterns(df, 20)
    [] fn = "find_bump_and_run" -> find_bump_and_run(df, 30)
    [] fn = "find_dragon_pattern" -> find_dragon_pattern(df)
    [] fn = "find_inverse_head_shoulders" -> find_inverse_head_shoulders(df, DefaultThreshold)
    [] fn = "find_adam_eve_pattern" -> find_adam_eve_pattern(df, Frac(3, 100))
    [] fn = "find_megaphone_pattern" -> find_megaphone_pattern(df, 15)
    [] fn = "find_dead_cat_bounce" -> find_dead_cat_bounce(df, 10)
    [] fn = "find_abcd_pattern" -> find_abcd_pattern(df, DefaultThreshold)
    [] fn = "find_rectangle_pattern" -> find_rectangle_pattern(df, 20, DefaultThreshold)
    [] fn = "find_bullish_engulfing" -> find_bullish_engulfing(df)
    [] fn = "find_bearish_engulfing" -> find_bearish_engulfing(df)
    [] fn = "find_morning_star" -> find_morning_star(df)
    [] fn = "find_evening_star" -> find_evening_star(df)
    [] fn = "find_doji_patterns" -> find_doji_patterns(df)
    [] fn = "find_shooting_star" -> find_shooting_star(df)
    [] fn = "find_piercing_pattern" -> find_piercing_pattern(df)
    [] fn = "find_dark_cloud_cover" -> find_dark_cloud_cover(df)
    [] fn = "find_three_white_soldiers" -> find_three_white_soldiers(df)
    [] fn = "find_three_black_crows" -> find_three_black_crows(df)
    [] fn = "find_tweezer_patterns" -> find_tweezer_patterns(df)
    [] fn = "find_harami_patterns" -> find_harami_patterns(df)

\* A sliding-window matcher called with an explicit window (rectangle with
\* its default threshold).
RunWindowed(fn, df, window) ==
  CASE fn = "find_triangle_patterns" -> find_triangle_patterns(df, window)
    [] fn = "find_rounding_bottom" -> find_rounding_bottom(df, window)
    [] fn = "find_cup_and_handle" -> find_cup_and_handle(df, window)
    [] fn = "find_ascending_wedge" -> find_ascending_wedge(df, window)
    [] fn = "find_descending_wedge" -> find_descending_wedge(df, window)
    [] fn = "find_rising_wedge" -> find_rising_wedge(df, window)
    [] fn = "find_falling_wedge" -> find_falling_wedge(df, window)
    [] fn = "find_flag_pattern" -> find_flag_pattern(df, window)
    [] fn = "find_pennant_pattern" -> find_pennant_pattern(df, window)
    [] fn = "find_channel_patterns" -> find_channel_patterns(df, window)
    [] fn = "find_bump_and_run" -> find_bump_and_run(df, window)
    [] fn = "find_megaphone_pattern" -> find_megaphone_pattern(df, window)
    [] fn = "find_dead_cat_bounce" -> find_dead_cat_bounce(df, window)
    [] fn = "find_rectangle_pattern" -> find_rectangle_pattern(df, window, DefaultThreshold)

\* Line 1292: the dictionary of the results r of the matchers, entry k
\* under Matchers[k].key; an exception of a matcher left the pass before.
CollectResults(r) ==
  IF \E k \in 1..Len(r) : r[k].raised
  THEN [raised |-> TRUE, results |-> <<>>]
  ELSE [raised |-> FALSE, results |-> [k \in 1..Len(r) |-> r[k].patterns]]

\* Lines 1248-1292: the matchers are called one after the other with no
\* try block around the calls: the first exception ends the pass and no
\* dictionary is returned.
detect_all_patterns(df) ==
  CollectResults([k \in 1..Len(Matchers) |-> RunMatcher(Matchers[k].fn, df)])

(***************************************************************************)
(* The price chart (app/ui/components/price_chart.py, class PriceChart).   *)
(* A data frame is its number of rows, the drawing is the positions shown  *)
(* on the x axis and the positions of the markers of the recent patterns.  *)
(***************************************************************************)
\* int(x) of a float: truncation towards zero.
PyInt(x) == IF x[1] >= 0 THEN x[1] \div x[2] ELSE -((-x[1]) \div x[2])

NoFrame == [present |-> FALSE, rows |-> 0]

\* Lines 64-68: the zoom state set by __init__, with nothing drawn yet.
NewChart ==
  [x_min |-> Zero, x_max |-> None, df_backup |-> NoFrame, recent_patterns |-> <<>>,
   x_display |-> <<>>, markers |-> <<>>, events |-> 0]

RECURSIVE MaxOfList(_)
MaxOfList(s) ==
  IF Len(s) = 1 THEN s[1]
  ELSE IF s[1] >= MaxOfList(Tail(s)) THEN s[1] ELSE MaxOfList(Tail(s))

\* Lines 236-242: the position that stands for a detection (none for a
\* record without any of the six keys).
RepresentativeIndex(detection) ==
  IF "index" \in DOMAIN detection THEN {detection.index}
  ELSE IF "second_top" \in DOMAIN detection THEN {detection.second_top}
  ELSE IF "second_bottom" \in DOMAIN detection THEN {detection.second_bottom}
  ELSE IF "right_shoulder" \in DOMAIN detection THEN {detection.right_shoulder}
  ELSE IF "peaks" \in DOMAIN detection THEN {MaxOfList(detection.peaks)}
  ELSE IF "troughs" \in DOMAIN detection THEN {MaxOfList(detection.troughs)}
  ELSE {}

\* Lines 233-242: the positions of all detections of all names.
DetectionIndices(recent_patterns) ==
  UNION {UNION {RepresentativeIndex(recent_patterns[name][k]) :
                  k \in 1..Len(recent_patterns[name])} :
           name \in DOMAIN recent_patterns}

\* x_idx[int(self.x_min):int(self.x_max)] for x_idx = arange(rows) and
\* bounds that are not negative: a slice is cut at the end of the array.
DisplaySlice(rows, x_min, x_max) ==
  LET Cut(start, stop) == [k \in 1..(stop - start) |-> start + k - 1]
  IN  Cut(IF PyInt(x_min) < rows THEN PyInt(x_min) ELSE rows,
          IF PyInt(x_max) < rows THEN PyInt(x_max) ELSE rows)

\* recent_indices with the test shifted by one position.
RecentIndicesShifted(recent_patterns, x_min, shown) ==
  {display_idx \in
     {idx - PyInt(x_min) : idx \in DetectionIndices(recent_patterns)} :
     0 < display_idx /\ display_idx <= shown}

\* Lines 243-246: the display positions of the detections that fall into the
\* shown slice.
RecentIndices(recent_patterns, x_min, shown) ==
  {display_idx \in
     {idx - PyInt(x_min) : idx \in DetectionIndices(recent_patterns)} :
     0 <= display_idx /\ display_idx < shown}

\* sorted(list(s))
RECURSIVE Sorted(_)
Sorted(s) ==
  IF s = {} THEN <<>>
  ELSE LET least == CHOOSE x \in s : \A y \in s : x <= y
       IN  <<least>> \o Sorted(s \ {least})

\* Lines 248-252: the x positions of the markers, at most the last ten of
\* the sorted display positions.
MarkerPositions(x_display, recent_indices) ==
  LET LastTen(sorted_indices) ==
        IF Len(sorted_indices) > 10
        THEN SubSeq(sorted_indices, Len(sorted_indices) - 9, Len(sorted_indices))
        ELSE sorted_indices
      Positions(shown) ==
        [k \in 1..Len(shown) |-> x_display[shown[k] + 1]]
  IN  Positions(SelectSeq(LastTen(Sorted(recent_indices)), LAMBDA idx : idx < Len(x_display)))

\* update_chart(df, recent_patterns=...) : nothing happens for an empty
\* frame; otherwise the frame and the parameters are kept, x_max is set on
\* the first drawing, and the slice and the markers are drawn.
update_chart(c, rows, recent_patterns) ==
  LET Drawn(x_max, x_display) ==
        [c EXCEPT !.df_backup = [present |-> TRUE, rows |-> rows],
                  !.recent_patterns = recent_patterns,
                  !.x_max = x_max,
                  !.x_display = x_display,
                  !.markers =
                    IF DOMAIN recent_patterns = {} THEN <<>>
                    ELSE MarkerPositions(x_display,
                                         RecentIndices(recent_patterns, c.x_min, Len(x_display)))]
      Draw(x_max) == Drawn(x_max, DisplaySlice(rows, c.x_min, x_max))
  IN  IF rows = 0 THEN c
      ELSE Draw(IF IsNone(c.x_max) THEN R(rows) ELSE c.x_max)

\* Lines 91-105
redraw_chart(c) ==
  IF ~c.df_backup.present THEN c
  ELSE update_chart(c, c.df_backup.rows, c.recent_patterns)

\* Lines 70-77
zoom_in(c) ==
  LET Zoom(center, range_val) ==
        redraw_chart([c EXCEPT !.x_min = PyMax(Zero, RSub(center, range_val)),
                               !.x_max = PyMin(R(c.df_backup.rows), RAdd(center, range_val))])
  IN  IF IsNone(c.x_max) THEN c
      ELSE Zoom(RDiv(RAdd(c.x_min, c.x_max), R(2)), RDiv(RSub(c.x_max, c.x_min), R(4)))

\* Lines 79-86
zoom_out(c) ==
  LET Zoom(center, range_val) ==
        redraw_chart([c EXCEPT !.x_min = PyMax(Zero, RSub(center, range_val)),
                               !.x_max = PyMin(R(c.df_backup.rows), RAdd(center, range_val))])
  IN  IF IsNone(c.x_max) THEN c
      ELSE Zoom(RDiv(RAdd(c.x_min, c.x_max), R(2)), RSub(c.x_max, c.x_min))

\* Lines 88-91
reset_view(c) == redraw_chart([c EXCEPT !.x_min = Zero, !.x_max = None])

(***************************************************************************)
(* The aggregator (app/services/alpha_signals.py, class                    *)
(* AlphaSignalsService).                                                   *)
(*                                                                         *)
(* A symbol is a sequence of one-character strings.  time.time() is the    *)
(* field clock of the service, in seconds.  What the two providers answer  *)
(* is an input of a call: a record of the four metric groups (and, for     *)
(* Binance, the top-trader series).                                        *)
(***************************************************************************)

LowerLetters ==
  <<"a", "b", "c", "d", "e", "f", "g", "h", "i", "j", "k", "l", "m",
    "n", "o", "p", "q", "r", "s", "t", "u", "v", "w", "x", "y", "z">>

UpperLetters ==
  <<"A", "B", "C", "D", "E", "F", "G", "H", "I", "J", "K", "L", "M",
    "N", "O", "P", "Q", "R", "S", "T", "U", "V", "W", "X", "Y", "Z">>

\* str.upper(): every lower-case letter becomes its capital, every other
\* character stays.
upper(s) ==
  [i \in 1..Len(s) |->
     IF \E k \in 1..Len(LowerLetters) : LowerLetters[k] = s[i]
     THEN UpperLetters[CHOOSE k \in 1..Len(LowerLetters) : LowerLetters[k] = s[i]]
     ELSE s[i]]

\* s.split("/")[0]: the text before the first slash, all of s without one.
SplitFirst(s) ==
  IF \E i \in 1..Len(s) : s[i] = "/"
  THEN SubSeq(s, 1, (CHOOSE i \in 1..Len(s) :
                       s[i] = "/" /\ \A j \in 1..(i - 1) : s[j] # "/") - 1)
  ELSE s

\* Lines 383-384.
BaseSymbol(symbol) == SplitFirst(upper(symbol))

\* Line 385: f"alpha:{base}".
CacheKey(base) == <<"a", "l", "p", "h", "a", ":">> \o base

CacheTtlDefault == 60

\* __init__ (lines 243-248).
NewService(cache_ttl) == [cache |-> <<>>, ttl |-> cache_ttl, clock |-> 0, calls |-> 0]

NoneDict == [none |-> TRUE]

IsNoneDict(d) == "none" \in DOMAIN d

\* The read of _get with an entry served up to and including age = ttl.
GetInclusive(svc, k) ==
  IF k \in DOMAIN svc.cache /\ svc.clock - svc.cache[k][2] <= svc.ttl
  THEN svc.cache[k][1]
  ELSE NoneDict

\* _get (lines 250-252): the entry is a non-empty tuple, so "v and ..." is
\* "the key is present and ...".
_get(svc, k) ==
  IF k \in DOMAIN svc.cache /\ svc.clock - svc.cache[k][2] < svc.ttl
  THEN svc.cache[k][1]
  ELSE NoneDict

\* _set (line 253) at time now.
_set(cache, k, d, now) ==
  [x \in DOMAIN cache \cup {k} |-> IF x = k THEN <<d, now>> ELSE cache[x]]

\* The fallback test passing as soon as one field of the group is None.
AnyFieldIsNull(group) == \E f \in DOMAIN group : IsNone(group[f])

\* Lines 396, 398, 400: a group falls back when every field of it is None.
GroupIsNull(group) == \A f \in DOMAIN group : IsNone(group[f])

\* Lines 389-392.
CoinGlassQueries ==
  <<"cg.get_funding_rate", "cg.get_open_interest_change",
    "cg.get_long_short_ratio", "cg.get_liquidations_24h">>

\* Lines 395-404: the Binance queries, in the order they are made.
BinanceQueries(cg) ==
  (IF IsNone(cg.funding) THEN <<"bn.get_funding_rate">> ELSE <<>>)
  \o (IF GroupIsNull(cg.oi) THEN <<"bn.get_open_interest_change">> ELSE <<>>)
  \o (IF GroupIsNull(cg.ls) THEN <<"bn.get_long_short_ratio">> ELSE <<>>)
  \o (IF GroupIsNull(cg.liq) THEN <<"bn.get_liquidations_24h">> ELSE <<>>)
  \o <<"bn.get_top_trader_pos_series">>

\* Lines 389-401 and 413-421: the metrics of a call whose providers
\* answered cg and bn.
Metrics(cg, bn) ==
  LET funding == IF IsNone(cg.funding) THEN bn.funding ELSE cg.funding
      oi      == IF GroupIsNull(cg.oi) THEN bn.oi ELSE cg.oi
      ls      == IF GroupIsNull(cg.ls) THEN bn.ls ELSE cg.ls
      liq     == IF GroupIsNull(cg.liq) THEN bn.liq ELSE cg.liq
  IN  [funding_rate_8h |-> funding,
       oi_level |-> oi.oi_level, oi_change_24h_pct |-> oi.oi_change_24h_pct,
       ls_accounts |-> ls.ls_accounts, ls_positions |-> ls.ls_positions,
       liq_24h_long_usd |-> liq.liq_24h_long_usd,
       liq_24h_short_usd |-> liq.liq_24h_short_usd]

\* Lines 405-431: the dict the call builds from the metrics and the series.
AlphaOut(base, metrics, series) ==
  LET Out(sm, composed) ==
        IF sm.raised \/ composed.raised THEN [raised |-> TRUE]
        ELSE [raised |-> FALSE, symbol |-> base, metrics |-> metrics,
              insights |-> composed.reasons, score |-> composed.composite,
              label |-> composed.label, smart_money |-> sm]
  IN  Out(_smart_money_flow(metrics.oi_change_24h_pct, series, metrics.funding_rate_8h,
                            metrics.liq_24h_long_usd, metrics.liq_24h_short_usd),
          _compose_alpha(metrics))

\* get_alpha_for_symbol (lines 382-433) on service svc, with the providers
\* answering cg and bn and the queries taking elapsed seconds: the service,
\* the locals and the returned value after the call.
get_alpha_for_symbol(svc, symbol, cg, bn, elapsed) ==
  LET Called(base, cache) ==
        IF ~IsNoneDict(cache)
        THEN [service |-> [svc EXCEPT !.calls = svc.calls + 1],
              locals  |-> [raised |-> FALSE, base |-> base, hit |-> TRUE,
                           stored |-> CacheKey(base) \in DOMAIN svc.cache,
                           queries |-> <<>>],
              ret     |-> [fn |-> "get_alpha_for_symbol", raised |-> FALSE, value |-> cache]]
        ELSE LET Finish(out) ==
                   [service |-> [svc EXCEPT
                                   !.calls = svc.calls + 1,
                                   !.clock = svc.clock + elapsed,
                                   !.cache = IF out.raised THEN svc.cache
                                             ELSE _set(svc.cache, CacheKey(base), out,
                                                       svc.clock + elapsed)],
                    locals  |-> [raised |-> out.raised, base |-> base, hit |-> FALSE,
                                 stored |-> CacheKey(base) \in DOMAIN svc.cache,
                                 queries |-> CoinGlassQueries \o BinanceQueries(cg),
                                 cg |-> cg, bn |-> bn],
                    ret     |-> IF out.raised
                                THEN [fn |-> "get_alpha_for_symbol", raised |-> TRUE]
                                ELSE [fn |-> "get_alpha_for_symbol", raised |-> FALSE,
                                      value |-> out]]
             IN  Finish(AlphaOut(base, Metrics(cg, bn), bn.series))
  IN  Called(BaseSymbol(symbol), _get(svc, CacheKey(BaseSymbol(symbol))))

(***************************************************************************)
(* Calls.                                                                  *)
(***************************************************************************)
PctArgs == {None} \cup {R(5 * k) : k \in -MaxPctK..MaxPctK}

ClampArgs == {Frac(1, 2), R(30), R(40)}

RatioArgs == {None} \cup {Frac(k, 10) : k \in -MaxRatioK..MaxRatioK}

RateArgs == {None} \cup {Frac(k, 2000) : k \in -MaxRateK..MaxRateK}

OiVals == {None} \cup {R(30 * k) : k \in -MaxOiK..MaxOiK} \cup {R(-400), R(400)}

\* Funding rates: missing, and one per bias with the thresholds -0.005, 0
\* and 0.01 themselves.
FundingVals == {None, Frac(-1, 100), Frac(-5, 1000), R(0), Frac(1, 100), Frac(15, 1000)}

\* Long/short ratios: missing, non-positive, below the lower clamp 0.2,
\* inside both branches and at the upper clamp 5.0.
RatioVals == {None, R(0), Frac(1, 10), Frac(1, 2), R(1), R(2), R(5)}

\* A liquidation volume is a sum of USD amounts: both providers return it
\* as None or a positive number; 0 is what a caller passes for "no volume".
LiqVals == {None, R(0), R(100), R(130), R(131)}

\* Points of a top-trader series: missing, non-positive (-1 would divide by
\* zero in r/(1+r)), and ratios whose long shares are 50%, 60% and 80%.
SeriesVals == {None, R(-1), R(1), Frac(3, 2), R(4)}

SeriesArgs == UNION {[1..k -> SeriesVals] : k \in 0..MaxSeriesLen}

MarketMetrics ==
  [funding_rate_8h : FundingVals, oi_change_24h_pct : OiVals,
   ls_accounts : RatioVals, ls_positions : RatioVals,
   liq_24h_long_usd : LiqVals, liq_24h_short_usd : LiqVals]

NormalizeCalls == [fn : {"_normalize_pct"}, x : PctArgs, clamp : ClampArgs]

RatioCalls == [fn : {"_ratio_to_score"}, r : RatioArgs]

BiasCalls == [fn : {"_bias_from_funding"}, rate : RateArgs]

SmartMoneyCalls ==
  [fn : {"_smart_money_flow"}, oi_change_pct : OiVals, ls_pos_series : SeriesArgs,
   funding_rate : FundingVals, liq_long : LiqVals, liq_short : LiqVals]

ComposeCalls == [fn : {"_compose_alpha"}, m : MarketMetrics]

\* Prices of the series handed to the extremum finder.
ExtVals == {R(1), R(2), R(3)}

ExtSeries == UNION {[1..k -> ExtVals] : k \in 0..MaxExtLen}

\* The default `order` of _find_peaks and _find_troughs.
DefaultOrder == 5

OrderArgs == (-1..MaxOrder) \cup {DefaultOrder}

FindPeaksCalls == [fn : {"_find_peaks"}, data : ExtSeries, order : OrderArgs]

FindTroughsCalls == [fn : {"_find_troughs"}, data : ExtSeries, order : OrderArgs]

(***************************************************************************)
(* Frames of the geometric matchers: a flat series with up to three spikes *)
(* (tops) or dips (bottoms).                                               *)
(***************************************************************************)
Bar(o, h, l, c) == [open |-> o, high |-> h, low |-> l, close |-> c]

Frame(bars) == [columns |-> Columns, bars |-> bars]

\* A series of n prices, flat at `base` except for the prices h1, h2, h3 at
\* the positions p1, p1+g1 and p1+g1+g2 (a position past the end is lost).
SpikeSeries(n, base, p1, g1, g2, h1, h2, h3) ==
  [i \in 1..n |-> IF i - 1 = p1 THEN h1
                  ELSE IF i - 1 = p1 + g1 THEN h2
                  ELSE IF i - 1 = p1 + g1 + g2 THEN h3
                  ELSE base]

\* The bars drawn under a series of highs, and over a series of lows.
TopBars(highs) ==
  [i \in 1..Len(highs) |->
     Bar(RSub(highs[i], R(2)), highs[i], RSub(highs[i], R(3)), RSub(highs[i], R(1)))]

BottomBars(lows) ==
  [i \in 1..Len(lows) |->
     Bar(RAdd(lows[i], R(2)), RAdd(lows[i], R(3)), lows[i], RAdd(lows[i], R(1)))]

TopBase == R(90)

BottomBase == R(110)

\* Spike prices of the two-extrema frames: 0.5%, 1% and 2% apart.
Levels2 == {R(100), Frac(201, 2), R(101), R(102)}

\* Spike prices of the three-extrema frames: 1%, 2/101 and 3% apart.
Levels3 == {R(100), R(101), R(103)}

\* Length of the longest two-extrema frame.
MaxBars == 20
\* The first spike of a two-extrema frame is at 0..MaxLead, the second
\* 1..MaxGap places later.
MaxLead == 4
MaxGap == 12
\* Length of the three-extrema frames, and the first spike's last position.
MaxTripleBars == 17
MaxLead3 == 2

DoubleLens == {9, 10, MaxBars}

TripleLens == {14, MaxTripleBars}

\* Gaps between the spikes of a three-extrema frame: around `order`.
Gaps3 == (DefaultOrder - 1)..(DefaultOrder + 2)

Series2(base) ==
  {SpikeSeries(n, base, p1, g, 1, h1, h2, base) :
     n \in DoubleLens, p1 \in 0..MaxLead, g \in 1..MaxGap,
     h1 \in Levels2 \cup {base}, h2 \in Levels2 \cup {base}}

Series3(base) ==
  {SpikeSeries(n, base, p1, g1, g2, h1, h2, h3) :
     n \in TripleLens, p1 \in 0..MaxLead3, g1 \in Gaps3, g2 \in Gaps3,
     h1 \in Levels3 \cup {base}, h2 \in Levels3 \cup {base}, h3 \in Levels3 \cup {base}}

TopFrames2 == {Frame(TopBars(s)) : s \in Series2(TopBase)}

BottomFrames2 == {Frame(BottomBars(s)) : s \in Series2(BottomBase)}

TopFrames3 == {Frame(TopBars(s)) : s \in Series3(TopBase)}

BottomFrames3 == {Frame(BottomBars(s)) : s \in Series3(BottomBase)}

Thresholds == {DefaultThreshold, Frac(1, 100)}

DoubleTopCalls == [fn : {"find_double_top"}, df : TopFrames2, threshold : Thresholds]

DoubleBottomCalls == [fn : {"find_double_bottom"}, df : BottomFrames2, threshold : Thresholds]

HeadAndShouldersCalls ==
  [fn : {"find_head_and_shoulders"}, df : TopFrames3, threshold : {DefaultThreshold}]

InverseHeadShouldersCalls ==
  [fn : {"find_inverse_head_shoulders"}, df : BottomFrames3, threshold : {DefaultThreshold}]

TripleTopCalls == [fn : {"find_triple_top"}, df : TopFrames3, threshold : {DefaultThreshold}]

TripleBottomCalls == [fn : {"find_triple_bottom"}, df : BottomFrames3, threshold : {DefaultThreshold}]

\* The calls of the geometric matchers.
GeometricCalls ==
  DoubleTopCalls \cup DoubleBottomCalls \cup HeadAndShouldersCalls
    \cup InverseHeadShouldersCalls \cup TripleTopCalls \cup TripleBottomCalls

(***************************************************************************)
(* Frames of the candlestick matchers, of find_triangle_patterns and of    *)
(* detect_all_patterns.                                                    *)
(***************************************************************************)
CandlePrices == {R(100), R(101), R(102)}

\* The bars low <= open, close <= high over the candle prices; a bar with
\* all four prices equal has no range.
ValidBars ==
  {Bar(o, h, l, c) : o \in CandlePrices, h \in CandlePrices, l \in CandlePrices, c \in CandlePrices}
    \ {b \in [open : CandlePrices, high : CandlePrices, low : CandlePrices, close : CandlePrices] :
         \/ RLt(b.high, PyMax(b.open, b.close))
         \/ RGt(b.low, PyMin(b.open, b.close))}

\* The bars without shadows.
BodyBars == {b \in ValidBars : b.high = PyMax(b.open, b.close) /\ b.low = PyMin(b.open, b.close)}

\* Frames of any bars have at most MaxWickBars bars, frames of bars
\* without shadows at most MaxBodyBars.
MaxWickBars == 2
MaxBodyBars == 3

\* A hammer and an inverted hammer: a body of 1 with one shadow of 3.
HammerBars == {Bar(R(103), R(104), R(100), R(104)), Bar(R(101), R(104), R(100), R(100))}

\* Malformed bars, whose high is below their low.
InvertedBars == {Bar(o, R(100), R(102), c) : o \in {R(101), R(102)}, c \in {R(101), R(102)}}

WickBars == ValidBars \cup HammerBars \cup InvertedBars

WickFrames == {Frame(bars) : bars \in UNION {[1..k -> WickBars] : k \in 0..MaxWickBars}}

BodyFrames == {Frame(bars) : bars \in UNION {[1..k -> BodyBars] : k \in 0..MaxBodyBars}}

\* The matchers that read the shadows of a bar, and those that read only
\* open and close.
WickMatchers ==
  {"find_hammer_patterns", "find_doji_patterns", "find_shooting_star", "find_tweezer_patterns"}

BodyMatchers ==
  {"find_bullish_engulfing", "find_bearish_engulfing", "find_morning_star",
   "find_evening_star", "find_piercing_pattern", "find_dark_cloud_cover",
   "find_three_white_soldiers", "find_three_black_crows", "find_harami_patterns"}

CandlestickCalls ==
  [fn : WickMatchers, df : WickFrames] \cup [fn : BodyMatchers, df : BodyFrames]
    \cup [fn : {"find_tweezer_patterns"}, df : BodyFrames]

\* find_triangle_patterns is called with window in -1..MaxWindow.
MaxWindow == 2

TriangleCalls ==
  [fn : {"find_triangle_patterns"}, df : WickFrames \cup BodyFrames, window : -1..MaxWindow]

\* detect_all_patterns runs on the two-extrema frames of at most
\* MaxDetectBars bars, with all their columns or without `high`.
MaxDetectBars == 10

DetectCalls ==
  [fn : {"detect_all_patterns"},
   df : {[f EXCEPT !.columns = cols] :
           f \in {g \in TopFrames2 : Len(g.bars) <= MaxDetectBars},
           cols \in {Columns, Columns \ {"high"}}}]

(***************************************************************************)
(* Frames of the sliding-window matchers.                                  *)
(***************************************************************************)
\* A bar around the price c: open = close = c, high and low at the
\* distance s.
LevelBar(c, s) == Bar(c, RAdd(c, s), RSub(c, s), c)

\* Step frames: the closes start at 100 and move by one of Steps from bar to
\* bar (no window of such closes has a slope of exactly 0).
Steps == {-2, 1, 4}

MaxStepBars == 6
MaxStepWindow == 4

RECURSIVE SumTo(_, _)
SumTo(ds, k) == IF k = 0 THEN 0 ELSE ds[k] + SumTo(ds, k - 1)

StepFrame(ds) == Frame([k \in 1..(Len(ds) + 1) |-> LevelBar(R(100 + SumTo(ds, k - 1)), R(1))])

StepFrames == {StepFrame(ds) : ds \in UNION {[1..n -> Steps] : n \in 0..(MaxStepBars - 1)}}

StepMatchers ==
  {"find_rounding_bottom", "find_ascending_wedge", "find_descending_wedge",
   "find_channel_patterns", "find_rectangle_pattern"}

StepCalls == [fn : StepMatchers, df : StepFrames, window : 3..MaxStepWindow]

\* Wave frames: highs and lows zigzag with period 4 and drift apart or
\* together by dh and dl per period; open = close = the middle of the bar.
WavePattern == <<0, 2, 4, 2>>

WaveBar(k, dh, dl) ==
  LET Mid(high, low) == Bar(RDiv(RAdd(high, low), R(2)), high, low, RDiv(RAdd(high, low), R(2)))
  IN  Mid(RAdd(R(104 + WavePattern[(k % 4) + 1]), RMul(dh, R(k \div 4))),
          RAdd(R(96 + WavePattern[(k % 4) + 1]), RMul(dl, R(k \div 4))))

WaveDrifts ==
  {<<Frac(1, 2), R(1)>>, <<R(-1), Frac(-1, 2)>>, <<R(1), R(-1)>>, <<R(-1), R(-3)>>}

MaxWaveBars == 12

WaveFrames ==
  {Frame([k \in 1..n |-> WaveBar(k - 1, d[1], d[2])]) : n \in 10..MaxWaveBars, d \in WaveDrifts}

WaveCalls ==
  [fn : {"find_rising_wedge", "find_falling_wedge", "find_megaphone_pattern",
         "find_descending_wedge"},
   df : WaveFrames, window : {8, 10}]

\* Bump frames: the closes repeat a slow rise, a fast rise and a fall.
BumpPattern == <<0, 1, 2, 5, 5, 3>>

MaxBumpBars == 14

BumpFrames ==
  {Frame([k \in 1..n |-> LevelBar(R(100 + BumpPattern[((k - 1) % 6) + 1]), R(1))]) :
     n \in 6..MaxBumpBars}

BumpCalls ==
  [fn : {"find_bump_and_run", "find_cup_and_handle"}, df : BumpFrames, window : {3, 6}]

\* Pole frames: a jump of 6% followed by closes that sink by 1/1000 per bar
\* between narrowing highs and lows, and a drop of 12% followed by two
\* small bounces.
FlagCloses ==
  <<R(100), R(100), R(100), R(100), R(106), R(106), Frac(105999, 1000), Frac(105998, 1000),
    Frac(105997, 1000)>>

FlagSpreads == <<R(4), R(4), R(4), R(4), R(4), R(4), R(1), Frac(1, 4), Frac(1, 16)>>

DeadCatCloses ==
  <<R(100), R(100), R(100), R(100), R(88), R(88), R(89), R(87), R(88), R(86), R(86)>>

PoleFrames ==
  {Frame([k \in 1..n |-> LevelBar(FlagCloses[k], FlagSpreads[k])]) : n \in 7..Len(FlagCloses)}
    \cup {Frame([k \in 1..n |-> LevelBar(DeadCatCloses[k], R(1))]) : n \in 8..Len(DeadCatCloses)}

PoleCalls ==
  [fn : {"find_flag_pattern", "find_pennant_pattern", "find_dead_cat_bounce"},
   df : PoleFrames, window : {2, 3}]

WindowedCalls == StepCalls \cup WaveCalls \cup BumpCalls \cup PoleCalls

WindowedMatchers == {c.fn : c \in WaveCalls \cup BumpCalls \cup PoleCalls} \cup StepMatchers

\* Zigzag frames: the prices rise for three bars and fall for three, so the
\* lows have a trough at the bars 6, 12, 18, ... and the highs a peak at
\* 3, 9, 15, ...
ZigzagPattern == <<0, 1, 2, 3, 2, 1>>

MaxZigzagBars == 26

ZigzagFrames ==
  {Frame([k \in 1..n |-> LevelBar(R(100 + ZigzagPattern[((k - 1) % 6) + 1]), R(1))]) :
     n \in 19..MaxZigzagBars}

ZigzagMatchers == {"find_dragon_pattern", "find_adam_eve_pattern", "find_abcd_pattern"}

ZigzagCalls == [fn : ZigzagMatchers, df : ZigzagFrames]

(***************************************************************************)
(* Frames and recent patterns handed to the chart.                         *)
(***************************************************************************)
\* The chart is given frames of 0, SmallChartRows or MaxChartRows rows and
\* takes at most MaxChartEvents calls.
SmallChartRows == 8
MaxChartRows == 12
MaxChartEvents == 5

ChartRows == {0, SmallChartRows, MaxChartRows}

\* A detection record whose representative position is i, of a kind that
\* goes with i.
DetectionAt(i) ==
  CASE i % 6 = 0 -> [index |-> i, type |-> "hammer"]
    [] i % 6 = 1 -> [first_top |-> i - 1, second_top |-> i]
    [] i % 6 = 2 -> [first_bottom |-> i - 1, second_bottom |-> i]
    [] i % 6 = 3 -> [left_shoulder |-> i - 2, head |-> i - 1, right_shoulder |-> i]
    [] i % 6 = 4 -> [peaks |-> <<i - 2, i, i - 1>>]
    [] i % 6 = 5 -> [troughs |-> <<i, i - 2, i - 1>>]

\* The recent patterns with a detection at every position of s, under two
\* names, and a record without a position.
RecentPatternsAt(s) ==
  [name \in {"Candles", "Geometric"} |->
     IF name = "Candles"
     THEN [k \in 1..Len(Sorted({i \in s : i % 6 = 0})) |->
             DetectionAt(Sorted({i \in s : i % 6 = 0})[k])]
            \o <<[adam |-> 0, eve |-> 1, type |-> "adam_eve_double_bottom"]>>
     ELSE [k \in 1..Len(Sorted({i \in s : i % 6 # 0})) |->
             DetectionAt(Sorted({i \in s : i % 6 # 0})[k])]]

\* No recent patterns, or detections at all positions of a frame, at the
\* even ones, at the last three or at the first two.
RecentChoices ==
  {<<>>}
    \cup {RecentPatternsAt(0..(n - 1)) : n \in ChartRows \ {0}}
    \cup {RecentPatternsAt({i \in 0..(n - 1) : i % 2 = 0}) : n \in ChartRows \ {0}}
    \cup {RecentPatternsAt((n - 3)..(n - 1)) : n \in ChartRows \ {0}}
    \cup {RecentPatternsAt({0, 1})}

\* Symbols asked for: two spellings of one base symbol and another base.
Symbols ==
  {<<"b", "t", "c", "/", "u", "s", "d", "t">>, <<"B", "T", "C">>, <<"e", "t", "h">>}

MaxTtl == 2

MaxClock == 3

MaxAlphaCalls == 2

NullOi == [oi_level |-> None, oi_change_24h_pct |-> None]

NullLs == [ls_accounts |-> None, ls_positions |-> None]

NullLiq == [liq_24h_long_usd |-> None, liq_24h_short_usd |-> None]

\* What CoinGlass answers: nothing, or one of two mixtures of null,
\* half-filled and filled groups (a funding rate of 0 is a value).
CoinGlassResponses ==
  {[funding |-> None, oi |-> NullOi, ls |-> NullLs, liq |-> NullLiq],
   [funding |-> R(0),
    oi      |-> NullOi,
    ls      |-> [ls_accounts |-> Frac(3, 2), ls_positions |-> None],
    liq     |-> NullLiq],
   [funding |-> Frac(2, 100),
    oi      |-> [oi_level |-> R(1000), oi_change_24h_pct |-> R(10)],
    ls      |-> NullLs,
    liq     |-> [liq_24h_long_usd |-> None, liq_24h_short_usd |-> R(131)]]}

\* What Binance answers: nothing at all (unreachable), or every group.
BinanceResponses ==
  {[funding |-> None, oi |-> NullOi, ls |-> NullLs, liq |-> NullLiq, series |-> <<>>],
   [funding |-> Frac(-1, 100),
    oi      |-> [oi_level |-> R(2000), oi_change_24h_pct |-> R(-10)],
    ls      |-> [ls_accounts |-> Frac(1, 2), ls_positions |-> R(1)],
    liq     |-> [liq_24h_long_usd |-> R(130), liq_24h_short_usd |-> R(100)],
    series  |-> <<R(1), Frac(3, 2)>>]}

NoRet == [fn |-> "none", raised |-> FALSE]

NoLocals == [raised |-> FALSE]

Init ==
  /\ call \in NormalizeCalls \cup RatioCalls \cup BiasCalls \cup SmartMoneyCalls \cup ComposeCalls
             \cup FindPeaksCalls \cup FindTroughsCalls \cup GeometricCalls
             \cup CandlestickCalls \cup TriangleCalls \cup DetectCalls \cup WindowedCalls
             \cup ZigzagCalls
  /\ locals = NoLocals
  /\ ret = NoRet
  /\ chart = NewChart
  /\ service = NewService(CacheTtlDefault)

NormalizePct ==
  /\ call.fn = "_normalize_pct"
  /\ ret = NoRet
  /\ LET v == _normalize_pct(call.x, call.clamp)
     IN  ret' = IF v = TypeError THEN [fn |-> call.fn, raised |-> TRUE]
                ELSE [fn |-> call.fn, raised |-> FALSE, value |-> v]
  /\ UNCHANGED <<call, locals, chart, service>>

RatioToScore ==
  /\ call.fn = "_ratio_to_score"
  /\ ret = NoRet
  /\ LET v == _ratio_to_score(call.r)
     IN  ret' = IF v = TypeError THEN [fn |-> call.fn, raised |-> TRUE]
                ELSE [fn |-> call.fn, raised |-> FALSE, value |-> v]
  /\ UNCHANGED <<call, locals, chart, service>>

BiasFromFunding ==
  /\ call.fn = "_bias_from_funding"
  /\ ret = NoRet
  /\ LET v == _bias_from_funding(call.rate)
     IN  ret' = IF v = "TypeError" THEN [fn |-> call.fn, raised |-> TRUE]
                ELSE [fn |-> call.fn, raised |-> FALSE, value |-> v]
  /\ UNCHANGED <<call, locals, chart, service>>

SmartMoneyFlow ==
  /\ call.fn = "_smart_money_flow"
  /\ ret = NoRet
  /\ locals' = SmartMoneyLocals(call.oi_change_pct, call.ls_pos_series, call.funding_rate,
                                call.liq_long, call.liq_short)
  /\ ret' = _smart_money_flow(call.oi_change_pct, call.ls_pos_series, call.funding_rate,
                              call.liq_long, call.liq_short)
  /\ UNCHANGED <<call, chart, service>>

ComposeAlpha ==
  /\ call.fn = "_compose_alpha"
  /\ ret = NoRet
  /\ locals' = ComposeLocals(call.m)
  /\ ret' = _compose_alpha(call.m)
  /\ UNCHANGED <<call, chart, service>>

FindPeaks ==
  /\ call.fn = "_find_peaks"
  /\ ret = NoRet
  /\ LET r == FindExtrema(call.data, "greater", call.order)
     IN  ret' = [fn |-> call.fn, raised |-> r.raised, value |-> r.idx]
  /\ UNCHANGED <<call, locals, chart, service>>

FindTroughs ==
  /\ call.fn = "_find_troughs"
  /\ ret = NoRet
  /\ LET r == FindExtrema(call.data, "less", call.order)
     IN  ret' = [fn |-> call.fn, raised |-> r.raised, value |-> r.idx]
  /\ UNCHANGED <<call, locals, chart, service>>

\* What a matcher's action leaves in `ret`.
MatcherRet(r) == [fn |-> call.fn, raised |-> r.raised, value |-> r.patterns]

FindDoubleTop ==
  /\ call.fn = "find_double_top"
  /\ ret = NoRet
  /\ ret' = MatcherRet(find_double_top(call.df, call.threshold))
  /\ UNCHANGED <<call, locals, chart, service>>

FindDoubleBottom ==
  /\ call.fn = "find_double_bottom"
  /\ ret = NoRet
  /\ ret' = MatcherRet(find_double_bottom(call.df, call.threshold))
  /\ UNCHANGED <<call, locals, chart, service>>

FindHeadAndShoulders ==
  /\ call.fn = "find_head_and_shoulders"
  /\ ret = NoRet
  /\ ret' = MatcherRet(find_head_and_shoulders(call.df, call.threshold))
  /\ UNCHANGED <<call, locals, chart, service>>

FindInverseHeadShoulders ==
  /\ call.fn = "find_inverse_head_shoulders"
  /\ ret = NoRet
  /\ ret' = MatcherRet(find_inverse_head_shoulders(call.df, call.threshold))
  /\ UNCHANGED <<call, locals, chart, service>>

FindTripleTop ==
  /\ call.fn = "find_triple_top"
  /\ ret = NoRet
  /\ ret' = MatcherRet(find_triple_top(call.df, call.threshold))
  /\ UNCHANGED <<call, locals, chart, service>>

FindTripleBottom ==
  /\ call.fn = "find_triple_bottom"
  /\ ret = NoRet
  /\ ret' = MatcherRet(find_triple_bottom(call.df, call.threshold))
  /\ UNCHANGED <<call, locals, chart, service>>

\* One of the thirteen candlestick matchers.
FindCandlestick ==
  /\ call.fn \in WickMatchers \cup BodyMatchers
  /\ ret = NoRet
  /\ ret' = MatcherRet(RunMatcher(call.fn, call.df))
  /\ UNCHANGED <<call, locals, chart, service>>

FindTrianglePatterns ==
  /\ call.fn = "find_triangle_patterns"
  /\ ret = NoRet
  /\ ret' = MatcherRet(find_triangle_patterns(call.df, call.window))
  /\ UNCHANGED <<call, locals, chart, service>>

FindWindowed ==
  /\ call.fn \in WindowedMatchers
  /\ ret = NoRet
  /\ ret' = MatcherRet(RunWindowed(call.fn, call.df, call.window))
  /\ UNCHANGED <<call, locals, chart, service>>

\* dragon, Adam and Eve and ABCD with their default arguments.
FindZigzagPattern ==
  /\ call.fn \in ZigzagMatchers
  /\ ret = NoRet
  /\ ret' = MatcherRet(CASE call.fn = "find_dragon_pattern" -> find_dragon_pattern(call.df)
                         [] call.fn = "find_adam_eve_pattern" ->
                              find_adam_eve_pattern(call.df, Frac(3, 100))
                         [] call.fn = "find_abcd_pattern" ->
                              find_abcd_pattern(call.df, DefaultThreshold))
  /\ UNCHANGED <<call, locals, chart, service>>

\* What the caller of detect_all_patterns sees.
PassRet(r) == [fn |-> call.fn, raised |-> r.raised, value |-> r.results]

DetectAllPatterns ==
  /\ call.fn = "detect_all_patterns"
  /\ ret = NoRet
  /\ ret' = PassRet(detect_all_patterns(call.df))
  /\ UNCHANGED <<call, locals, chart, service>>

Next ==
  \/ NormalizePct
  \/ RatioToScore
  \/ BiasFromFunding
  \/ SmartMoneyFlow
  \/ ComposeAlpha
  \/ FindPeaks
  \/ FindTroughs
  \/ FindDoubleTop
  \/ FindDoubleBottom
  \/ FindHeadAndShoulders
  \/ FindInverseHeadShoulders
  \/ FindTripleTop
  \/ FindTripleBottom
  \/ FindCandlestick
  \/ FindTrianglePatterns
  \/ FindWindowed
  \/ FindZigzagPattern
  \/ DetectAllPatterns

Spec == Init /\ [][Next]_vars

(***************************************************************************)
(* The chart: a frame is drawn, the buttons zoom.                          *)
(***************************************************************************)
ChartInit ==
  /\ call = [fn |-> "none"]
  /\ locals = NoLocals
  /\ ret = NoRet
  /\ chart = NewChart
  /\ service = NewService(CacheTtlDefault)

Counted(c) == [c EXCEPT !.events = chart.events + 1]

UpdateChart ==
  /\ chart.events < MaxChartEvents
  /\ \E rows \in ChartRows, recent_patterns \in RecentChoices :
       chart' = Counted(update_chart(chart, rows, recent_patterns))
  /\ UNCHANGED <<call, locals, ret, service>>

ZoomIn ==
  /\ chart.events < MaxChartEvents
  /\ chart' = Counted(zoom_in(chart))
  /\ UNCHANGED <<call, locals, ret, service>>

ZoomOut ==
  /\ chart.events < MaxChartEvents
  /\ chart' = Counted(zoom_out(chart))
  /\ UNCHANGED <<call, locals, ret, service>>

ResetView ==
  /\ chart.events < MaxChartEvents
  /\ chart' = Counted(reset_view(chart))
  /\ UNCHANGED <<call, locals, ret, service>>

ChartNext ==
  \/ UpdateChart
  \/ ZoomIn
  \/ ZoomOut
  \/ ResetView

ChartSpec == ChartInit /\ [][ChartNext]_vars

ServiceInit ==
  /\ call = [fn |-> "none"]
  /\ locals = NoLocals
  /\ ret = NoRet
  /\ chart = NewChart
  /\ service \in {NewService(cache_ttl) : cache_ttl \in 0..MaxTtl}

\* A second passes.
Tick ==
  /\ service.clock < MaxClock
  /\ service' = [service EXCEPT !.clock = service.clock + 1]
  /\ UNCHANGED <<call, locals, ret, chart>>

GetAlphaForSymbol ==
  /\ service.calls < MaxAlphaCalls
  /\ \E symbol \in Symbols, cg \in CoinGlassResponses, bn \in BinanceResponses,
        elapsed \in 0..1 :
       /\ service.clock + elapsed <= MaxClock
       /\ call' = [fn |-> "get_alpha_for_symbol", symbol |-> symbol]
       /\ LET Apply(r) == /\ service' = r.service
                          /\ locals' = r.locals
                          /\ ret' = r.ret
          IN  Apply(get_alpha_for_symbol(service, symbol, cg, bn, elapsed))
  /\ UNCHANGED chart

ServiceNext ==
  \/ Tick
  \/ GetAlphaForSymbol

ServiceSpec == ServiceInit /\ [][ServiceNext]_vars


(***************************************************************************)
(* Claims.                                                                 *)
(***************************************************************************)
\* A missing metric counted as 0.
NullAsZero(x) == IF x = None THEN Zero ELSE x

\* clamp(x, lo, hi) on numbers.
ClampTo(x, lo, hi) == IF RLt(x, lo) THEN lo ELSE IF RGt(x, hi) THEN hi ELSE x

ComposeReturned == ret.fn = "_compose_alpha"

SmartMoneyReturned == ret.fn = "_smart_money_flow"

\* C1: for every MarketMetrics (each metric null or a number, all-null
\* included) _compose_alpha returns an integer composite with
\* 0 <= composite <= 100.
C1_CompositeInRange ==
  ComposeReturned => (~ret.raised /\ ret.composite \in 0..100)

\* C1 witness: the lowest composite, 18, returned for a far negative OI change.
C1_Witness ==
  /\ ComposeReturned
  /\ ~ret.raised
  /\ call.m.oi_change_24h_pct = R(-400)
  /\ ret.composite = 18

\* C2: the label is BULLISH exactly when composite >= 60, BEARISH exactly
\* when composite <= 40 and NEUTRAL otherwise (40 -> BEARISH, 41 -> NEUTRAL,
\* 59 -> NEUTRAL, 60 -> BULLISH).
C2_LabelThresholds ==
  (ComposeReturned /\ ~ret.raised) =>
    /\ (ret.label = "BULLISH") <=> (ret.composite >= 60)
    /\ (ret.label = "BEARISH") <=> (ret.composite <= 40)
    /\ (ret.label = "NEUTRAL") <=> (ret.composite > 40 /\ ret.composite < 60)
    /\ ret.composite = 40 => ret.label = "BEARISH"
    /\ ret.composite = 41 => ret.label = "NEUTRAL"
    /\ ret.composite = 59 => ret.label = "NEUTRAL"
    /\ ret.composite = 60 => ret.label = "BULLISH"

\* C2 witness: a composite of exactly 60 was returned, labelled BULLISH.
C2_Witness ==
  /\ ComposeReturned
  /\ ~ret.raised
  /\ ret.composite = 60
  /\ ret.label = "BULLISH"

\* The other three boundary values of C2 are returned too.
C2_Reach40 == ComposeReturned /\ ~ret.raised /\ ret.composite = 40

C2_Reach41 == ComposeReturned /\ ~ret.raised /\ ret.composite = 41

C2_Reach59 == ComposeReturned /\ ~ret.raised /\ ret.composite = 59

\* The funding score and the liquidation score as the claim C3 words them.
ClaimedFundingScore(bias) ==
  CASE bias = "bullish_crowded" -> R(40)
    [] bias = "slightly_bullish" -> R(58)
    [] bias = "neutral" -> R(50)
    [] bias = "slightly_bearish" -> R(62)
    [] bias = "bearish_crowded" -> R(68)

ClaimedLiquidationScore(liq_long, liq_short) ==
  LET l == NullAsZero(liq_long)
      s == NullAsZero(liq_short)
  IN  IF RGt(s, RMul(Frac(13, 10), l)) THEN R(58)
      ELSE IF RGt(l, RMul(Frac(13, 10), s)) THEN R(42)
      ELSE R(50)

\* C3: the composite equals round(0.30*normalize_pct(oi_change, 40)
\* + 0.25*funding_score + 0.25*avg(ratio_to_score(ls_accounts),
\* ratio_to_score(ls_positions)) + 0.20*liquidation_score), with the
\* funding score 40/58/50/62/68 by bias and the liquidation score 58/42/50.
C3_CompositeFormula ==
  ComposeReturned =>
    /\ ~ret.raised
    /\ LET m == call.m
           avg == RDiv(RAdd(_ratio_to_score(m.ls_accounts), _ratio_to_score(m.ls_positions)),
                       R(2))
           total ==
             RAdd(RAdd(RAdd(RMul(Frac(3, 10), _normalize_pct(m.oi_change_24h_pct, R(40))),
                            RMul(Frac(1, 4),
                                 ClaimedFundingScore(_bias_from_funding(m.funding_rate_8h)))),
                       RMul(Frac(1, 4), avg)),
                  RMul(Frac(1, 5),
                       ClaimedLiquidationScore(m.liq_24h_long_usd, m.liq_24h_short_usd)))
       IN  ret.composite = IntRound(total)

\* C3 witness: a call in which all four sub-scores leave the neutral 50.
C3_Witness ==
  /\ ComposeReturned
  /\ ~ret.raised
  /\ locals.oi_score # R(50)
  /\ locals.fund_score = R(62)
  /\ locals.ls_score # R(50)
  /\ locals.liq_score = R(58)

\* C4: for every combination of null and non-null metrics and every
\* top-trader series (empty, one point, null or non-positive points)
\* _compose_alpha and _smart_money_flow return a score and a label and
\* never raise.
C4_NeverRaises ==
  /\ ComposeReturned =>
       (~ret.raised /\ ret.composite \in Int
        /\ ret.label \in {"BULLISH", "BEARISH", "NEUTRAL"})
  /\ SmartMoneyReturned =>
       (~ret.raised /\ ret.score \in Int
        /\ ret.label \in {"INFLOW", "OUTFLOW", "NEUTRAL"})

\* C4 witness: a smart-money call with every metric null and a series made
\* of a null and a non-positive ratio has returned.
C4_Witness ==
  /\ SmartMoneyReturned
  /\ call.ls_pos_series = <<None, R(-1)>>
  /\ call.oi_change_pct = None
  /\ call.funding_rate = None
  /\ call.liq_long = None
  /\ call.liq_short = None
  /\ ~ret.raised

\* C5 as stated: ratio_to_score(1.0) = 50, ratio_to_score(None) = 50 and
\* for ALL real r1 <= r2, ratio_to_score(r1) <= ratio_to_score(r2).
C5_MonotoneAllReals ==
  (ret.fn = "_ratio_to_score") =>
    /\ ~ret.raised
    /\ call.r = R(1) => ret.value = R(50)
    /\ call.r = None => ret.value = R(50)
    /\ call.r # None =>
         \A r2 \in RatioArgs \ {None} :
           RLe(call.r, r2) => RLe(ret.value, _ratio_to_score(r2))

\* C5 amended: ratio_to_score(1.0) = 50, ratio_to_score(None) = 50 and
\* ratio_to_score is monotonic non-decreasing over the positive ratios:
\* for all 0 < r1 <= r2, ratio_to_score(r1) <= ratio_to_score(r2).
C5_MonotonePositive ==
  (ret.fn = "_ratio_to_score") =>
    /\ ~ret.raised
    /\ call.r = R(1) => ret.value = R(50)
    /\ call.r = None => ret.value = R(50)
    /\ (call.r # None /\ RGt(call.r, Zero)) =>
         \A r2 \in RatioArgs \ {None} :
           RLe(call.r, r2) => RLe(ret.value, _ratio_to_score(r2))

\* C5 witness: a positive ratio below 1.0 scored below 50.
C5_Witness ==
  /\ ret.fn = "_ratio_to_score"
  /\ ~ret.raised
  /\ call.r = Frac(1, 2)
  /\ ret.value = Frac(75, 4)

\* C6: for every x and every clamp > 0, 0 <= normalize_pct(x, clamp) <= 100,
\* and normalize_pct(None, clamp) = 50 exactly.
C6_NormalizeBounds ==
  (ret.fn = "_normalize_pct") =>
    /\ ~ret.raised
    /\ RLe(Zero, ret.value)
    /\ RLe(ret.value, R(100))
    /\ call.x = None => ret.value = R(50)

\* C6 witness: an x beyond the clamp was normalized to the upper end 100.
C6_Witness ==
  /\ ret.fn = "_normalize_pct"
  /\ ~ret.raised
  /\ call.x = R(45)
  /\ call.clamp = R(40)
  /\ ret.value = R(100)

\* C7: bullish_crowded iff rate > 0.01; slightly_bullish iff
\* 0 < rate <= 0.01; neutral iff rate = 0 or null; slightly_bearish iff
\* -0.005 <= rate < 0; bearish_crowded iff rate < -0.005.
C7_BiasClassification ==
  (ret.fn = "_bias_from_funding") =>
    /\ ~ret.raised
    /\ LET rate == call.rate
           num == rate # None
       IN  /\ (ret.value = "bullish_crowded") <=> (num /\ RGt(rate, Frac(1, 100)))
           /\ (ret.value = "slightly_bullish") <=>
                (num /\ RGt(rate, Zero) /\ RLe(rate, Frac(1, 100)))
           /\ (ret.value = "neutral") <=> (rate = None \/ rate = Zero)
           /\ (ret.value = "slightly_bearish") <=>
                (num /\ RGe(rate, Frac(-5, 1000)) /\ RLt(rate, Zero))
           /\ (ret.value = "bearish_crowded") <=> (num /\ RLt(rate, Frac(-5, 1000)))

\* C7 witness: the rate -0.005 itself was classified slightly_bearish.
C7_Witness ==
  /\ ret.fn = "_bias_from_funding"
  /\ call.rate = Frac(-5, 1000)
  /\ ret.value = "slightly_bearish"

\* The sub-score a reason of _compose_alpha speaks of.
ReasonKind(reason) ==
  IF reason \in {"Open Interest naik -> leverage bertambah (potensi move besar)",
                 "Open Interest turun -> deleverage"} THEN "oi"
  ELSE IF reason \in {"Funding sangat positif -> longs crowded",
                      "Funding positif -> dominasi long",
                      "Funding negatif ringan -> kontra crowd",
                      "Funding sangat negatif -> shorts crowded (squeeze risk)",
                      "Funding netral"} THEN "funding"
  ELSE IF reason \in {"Long/Short ratio condong ke long",
                      "Long/Short ratio condong ke short",
                      "Long/Short ratio condong ke netral"} THEN "ratio"
  ELSE IF reason \in {"Likuidasi short dominan -> potensi relief ke atas",
                      "Likuidasi long dominan -> tekanan turun",
                      "Likuidasi relatif seimbang"} THEN "liquidations"
  ELSE "other"

ReasonKinds(reasons) == [i \in 1..Len(reasons) |-> ReasonKind(reasons[i])]

\* <<kind>> when the condition holds, else the empty sequence.
When(cond, kind) == IF cond THEN <<kind>> ELSE <<>>

\* C8 as stated: the reasons hold exactly one reason for each sub-score that
\* departs from its neutral value, none for a neutral sub-score, in the
\* order OI, funding, ratio, liquidations.
C8_ReasonsOnlyNonNeutral ==
  (ComposeReturned /\ ~ret.raised) =>
    ReasonKinds(ret.reasons) =
      When(locals.oi_score # R(50), "oi") \o When(locals.fund_score # R(50), "funding")
      \o When(locals.ls_score # R(50), "ratio")
      \o When(locals.liq_score # R(50), "liquidations")

\* C8 amended: the reasons hold, in the order OI, funding, ratio,
\* liquidations, one OI reason exactly when oi_change_24h_pct is non-null,
\* one funding reason always (neutral funding too), one ratio reason exactly
\* when ls_accounts or ls_positions is non-null, and one liquidation reason
\* exactly when a liquidation volume is neither null nor zero; so every
\* sub-score that departs from neutral has exactly one reason.
C8_ReasonsPerAvailableInput ==
  (ComposeReturned /\ ~ret.raised) =>
    LET m == call.m
        kinds == ReasonKinds(ret.reasons)
    IN  /\ kinds =
             When(m.oi_change_24h_pct # None, "oi") \o <<"funding">>
             \o When(m.ls_accounts # None \/ m.ls_positions # None, "ratio")
             \o When(NullAsZero(m.liq_24h_long_usd) # Zero
                     \/ NullAsZero(m.liq_24h_short_usd) # Zero, "liquidations")
        /\ locals.oi_score # R(50) => \E i \in DOMAIN kinds : kinds[i] = "oi"
        /\ locals.ls_score # R(50) => \E i \in DOMAIN kinds : kinds[i] = "ratio"
        /\ locals.liq_score # R(50) => \E i \in DOMAIN kinds : kinds[i] = "liquidations"

\* C8 witness: four reasons were returned although all four sub-scores are
\* neutral.
C8_Witness ==
  /\ ComposeReturned
  /\ ~ret.raised
  /\ Len(ret.reasons) = 4
  /\ locals.oi_score = R(50)
  /\ locals.fund_score = R(50)
  /\ locals.ls_score = R(50)
  /\ locals.liq_score = R(50)

\* C9: a top-trader series of length 0 or 1 gives delta_long_share_pp = null,
\* a share component of exactly 0 in flow_val, and no error.
C9_ShortSeries ==
  (SmartMoneyReturned /\ Len(call.ls_pos_series) <= 1) =>
    /\ ~ret.raised
    /\ ret.delta_long_share_pp = None
    /\ ret.components.share_norm = Zero
    /\ locals.flow_val =
         RAdd(RAdd(RMul(Frac(6, 10), locals.norm_oi), locals.fudge), locals.liq_adj)

\* C9 witness: a one-point series with a valid ratio was scored.
C9_Witness ==
  /\ SmartMoneyReturned
  /\ call.ls_pos_series = <<R(4)>>
  /\ ~ret.raised
  /\ locals.long_share_now = Frac(4, 5)
  /\ ret.delta_long_share_pp = None

\* The funding fudge and the liquidation adjustment as the claim C10 words
\* them.
ClaimedFudge(bias) ==
  IF bias = "bearish_crowded" THEN R(5)
  ELSE IF bias = "bullish_crowded" THEN R(-5)
  ELSE Zero

ClaimedLiqAdj(liq_long, liq_short) ==
  LET l == NullAsZero(liq_long)
      s == NullAsZero(liq_short)
  IN  IF RGt(s, RMul(Frac(13, 10), l)) THEN R(5)
      ELSE IF RGt(l, RMul(Frac(13, 10), s)) THEN R(-5)
      ELSE Zero

ClaimedShareTerm(delta_share_pp) ==
  IF delta_share_pp = None THEN Zero
  ELSE RMul(RDiv(ClampTo(delta_share_pp, R(-20), R(20)), R(20)), R(50))

FinderReturned == ret.fn \in {"_find_peaks", "_find_troughs"}

FinderComparator == IF call.fn = "_find_peaks" THEN "greater" ELSE "less"

StrictlyAscending(idx) == \A i \in 1..(Len(idx) - 1) : idx[i] < idx[i + 1]

\* No position within `order` places of p holds a value that beats the one
\* at p (strictly greater for a peak, strictly smaller for a trough).
NoBetterNeighbour(data, comparator, order, p) ==
  \A q \in 0..(Len(data) - 1) :
    (q # p /\ Abs(q - p) <= order) => ~Compare(comparator, At(data, q), At(data, p))

\* C11: for every series and every order, the positions returned by
\* _find_peaks (_find_troughs) are strictly ascending, each lies in
\* [order, len-order-1], and no position within `order` places of a
\* returned one holds a strictly greater (strictly smaller) value.
C11_ExtremaContract ==
  FinderReturned =>
    /\ ~ret.raised
    /\ StrictlyAscending(ret.value)
    /\ \A i \in 1..Len(ret.value) :
         /\ ret.value[i] >= call.order
         /\ ret.value[i] <= Len(call.data) - call.order - 1
         /\ NoBetterNeighbour(call.data, FinderComparator, call.order, ret.value[i])

\* C12: on every series shorter than 2*order+1 the extremum finder returns
\* an empty sequence and does not raise.
C12_ShortSeriesEmpty ==
  (FinderReturned /\ Len(call.data) < 2 * call.order + 1) =>
    (~ret.raised /\ ret.value = <<>>)

(***************************************************************************)
(* Double / triple extrema and head-and-shoulders matchers.                *)
(***************************************************************************)
\* |a - b| / a < threshold for positive prices, without the division.
WithinThreshold(a, b, threshold) == RLt(RAbs(RSub(a, b)), RMul(threshold, a))

\* The extrema a geometric matcher works from, and their price series.
IsTopMatcher ==
  call.fn \in {"find_double_top", "find_head_and_shoulders", "find_triple_top"}

MatcherPrices == IF IsTopMatcher THEN Col(call.df, "high") ELSE Col(call.df, "low")

MatcherExtrema ==
  IF IsTopMatcher THEN _find_peaks(MatcherPrices, DefaultOrder)
  ELSE _find_troughs(MatcherPrices, DefaultOrder)

\* The two positions of a double-top or double-bottom record.
DoubleFirst(r) == IF call.fn = "find_double_top" THEN r.first_top ELSE r.first_bottom

DoubleSecond(r) == IF call.fn = "find_double_top" THEN r.second_top ELSE r.second_bottom

DoubleReturned == ret.fn \in {"find_double_top", "find_double_bottom"}

\* The records of ret.value that carry the positions a and b.
RecordsOfPair(a, b) ==
  {k \in 1..Len(ret.value) : DoubleFirst(ret.value[k]) = a /\ DoubleSecond(ret.value[k]) = b}

\* C16: for every series of length >= 10, find_double_top
\* (find_double_bottom) emits one record for a pair of consecutive peaks
\* (troughs) exactly when their relative price difference is within
\* `threshold` and the positions are at least 5 bars apart; the record
\* carries the two positions as first/second, and no record is emitted for
\* any other pair.
C16_DoubleRecords ==
  (DoubleReturned /\ Len(call.df.bars) >= 10) =>
    LET ext == MatcherExtrema
        prices == MatcherPrices
        Qualifies(i) ==
          /\ WithinThreshold(At(prices, ext[i]), At(prices, ext[i + 1]), call.threshold)
          /\ ext[i + 1] - ext[i] >= 5
    IN  /\ ~ret.raised
        /\ \A i \in 1..(Len(ext) - 1) :
             Cardinality(RecordsOfPair(ext[i], ext[i + 1])) = IF Qualifies(i) THEN 1 ELSE 0
        /\ \A k \in 1..Len(ret.value) :
             \E i \in 1..(Len(ext) - 1) :
               DoubleFirst(ret.value[k]) = ext[i] /\ DoubleSecond(ret.value[k]) = ext[i + 1]

\* A double bottom was emitted for the two troughs of a series.
C16_Witness ==
  /\ ret.fn = "find_double_bottom"
  /\ Len(MatcherExtrema) = 2
  /\ Len(ret.value) = 1
  /\ ret.value[1].first_bottom = MatcherExtrema[1]

\* The bars that are higher than every other bar within `order` places.
LocalHighs(high, order) ==
  {p \in 0..(Len(high) - 1) :
     \A q \in 0..(Len(high) - 1) :
       (q # p /\ Abs(q - p) <= order) => RLt(At(high, q), At(high, p))}

\* The scenario of C17: 20 bars, local highs only at bar 3 (100) and at
\* bar 15 (100.5), default parameters.
C17_Scenario ==
  /\ call.fn = "find_double_top"
  /\ call.threshold = DefaultThreshold
  /\ Len(call.df.bars) = 20
  /\ LocalHighs(Col(call.df, "high"), DefaultOrder) = {3, 15}
  /\ At(Col(call.df, "high"), 3) = R(100)
  /\ At(Col(call.df, "high"), 15) = Frac(201, 2)

\* C17: for a 20-bar series whose only local highs are bar 3 at price 100
\* and bar 15 at price 100.5, find_double_top() with default parameters
\* returns exactly one record, with first_top = 3 and second_top = 15.
C17_ScenarioRecord ==
  (C17_Scenario /\ ret.fn = "find_double_top") =>
    /\ ~ret.raised
    /\ Len(ret.value) = 1
    /\ ret.value[1].first_top = 3
    /\ ret.value[1].second_top = 15

C17_Witness ==
  /\ C17_Scenario
  /\ ret.fn = "find_double_top"
  /\ Len(ret.value) = 1

\* The three positions of a triple-top or triple-bottom record.
TriplePositions(r) == IF call.fn = "find_triple_top" THEN r.peaks ELSE r.troughs

\* C18: find_triple_top (find_triple_bottom) emits a record for three
\* consecutive peaks (troughs) only when all three pairs of their prices
\* (first-second, second-third and first-third) are within `threshold`
\* relative difference of each other.
C18_TriplePairwise ==
  ret.fn \in {"find_triple_top", "find_triple_bottom"} =>
    \A k \in 1..Len(ret.value) :
      LET pos == TriplePositions(ret.value[k])
          p1 == At(MatcherPrices, pos[1])
          p2 == At(MatcherPrices, pos[2])
          p3 == At(MatcherPrices, pos[3])
      IN  /\ WithinThreshold(p1, p2, call.threshold)
          /\ WithinThreshold(p2, p3, call.threshold)
          /\ WithinThreshold(p1, p3, call.threshold)

\* The positions a, b, c are three consecutive entries of the extrema.
ConsecutiveExtrema(ext, a, b, c) ==
  \E i \in 1..(Len(ext) - 2) : ext[i] = a /\ ext[i + 1] = b /\ ext[i + 2] = c

\* C19: every record of find_head_and_shoulders is three consecutive peaks
\* whose middle peak is strictly higher than both outer peaks, whose outer
\* peaks are within `threshold` relative difference, and whose adjacent
\* peaks are each at least 5 bars apart; every record of
\* find_inverse_head_shoulders satisfies the same on troughs with the
\* middle strictly lower.
C19_HeadAndShoulders ==
  ret.fn \in {"find_head_and_shoulders", "find_inverse_head_shoulders"} =>
    \A k \in 1..Len(ret.value) :
      LET r == ret.value[k]
          left == At(MatcherPrices, r.left_shoulder)
          head == At(MatcherPrices, r.head)
          right == At(MatcherPrices, r.right_shoulder)
      IN  /\ ConsecutiveExtrema(MatcherExtrema, r.left_shoulder, r.head, r.right_shoulder)
          /\ IF IsTopMatcher THEN RGt(head, left) /\ RGt(head, right)
             ELSE RLt(head, left) /\ RLt(head, right)
          /\ WithinThreshold(left, right, call.threshold)
          /\ r.head - r.left_shoulder >= 5
          /\ r.right_shoulder - r.head >= 5

\* A head-and-shoulders record was emitted.
C19_Witness ==
  /\ ret.fn = "find_head_and_shoulders"
  /\ Len(ret.value) = 1
  /\ ret.value[1].head - ret.value[1].left_shoulder >= 5

\* An inverse head-and-shoulders record was emitted.
C19_WitnessInverse ==
  /\ ret.fn = "find_inverse_head_shoulders"
  /\ Len(ret.value) = 1

(***************************************************************************)
(* Failures, insufficient data and misuse.                                 *)
(***************************************************************************)
\* What a pass that isolated every matcher's exception would return: the
\* entry of a raising matcher is empty, the others are the matchers' lists.
EntryOf(r) == IF r.raised THEN <<>> ELSE r.patterns

IsolatedResults(df) ==
  [k \in 1..Len(Matchers) |-> EntryOf(RunMatcher(Matchers[k].fn, df))]

\* C13: detect_all_patterns isolates failures per matcher: if any single
\* matcher raises, the pass still completes, that pattern's entry is an
\* empty list, and the results of all other matchers are returned
\* unchanged.
C13_FailureIsolation ==
  ret.fn = "detect_all_patterns" =>
    (~ret.raised /\ ret.value = IsolatedResults(call.df))

\* The shortest series a matcher works on with its default parameters.
MinLength(fn) ==
  CASE fn \in {"find_doji_patterns"} -> 1
    [] fn \in {"find_hammer_patterns", "find_bullish_engulfing", "find_bearish_engulfing",
               "find_shooting_star", "find_piercing_pattern", "find_dark_cloud_cover",
               "find_tweezer_patterns", "find_harami_patterns"} -> 2
    [] fn \in {"find_morning_star", "find_evening_star", "find_three_white_soldiers",
               "find_three_black_crows"} -> 3
    [] fn \in {"find_double_top", "find_double_bottom"} -> 10
    [] fn \in {"find_head_and_shoulders", "find_inverse_head_shoulders", "find_triple_top",
               "find_triple_bottom", "find_ascending_wedge", "find_descending_wedge",
               "find_rising_wedge", "find_falling_wedge", "find_flag_pattern",
               "find_pennant_pattern", "find_megaphone_pattern", "find_dead_cat_bounce"} -> 15
    [] fn \in {"find_triangle_patterns", "find_rounding_bottom", "find_channel_patterns",
               "find_dragon_pattern", "find_adam_eve_pattern", "find_abcd_pattern",
               "find_rectangle_pattern"} -> 20
    [] fn \in {"find_bump_and_run"} -> 30
    [] fn \in {"find_cup_and_handle"} -> 40

\* The number of extrema the double and triple matchers need.
RequiredExtrema(fn) ==
  IF fn \in {"find_double_top", "find_double_bottom"} THEN 2 ELSE 3

ExtremaMatchers ==
  {"find_double_top", "find_double_bottom", "find_head_and_shoulders",
   "find_inverse_head_shoulders", "find_triple_top", "find_triple_bottom"}

\* C14: when the series is shorter than a matcher's minimum length, or
\* yields fewer extrema than the matcher requires, that matcher returns an
\* empty list without raising, and every other matcher invoked by
\* detect_all_patterns on the same series (a frame with its four price
\* columns) still runs and returns its own result.
C14_InsufficientData ==
  /\ (ret.fn \in ExtremaMatchers \cup WickMatchers \cup BodyMatchers
        /\ Len(call.df.bars) < MinLength(ret.fn))
       => (~ret.raised /\ ret.value = <<>>)
  /\ (ret.fn \in ExtremaMatchers /\ Len(MatcherExtrema) < RequiredExtrema(ret.fn))
       => (~ret.raised /\ ret.value = <<>>)
  /\ (ret.fn = "detect_all_patterns" /\ call.df.columns = Columns)
       => /\ ~ret.raised
          /\ Len(ret.value) = Len(Matchers)
          /\ \A k \in 1..Len(Matchers) :
               /\ ret.value[k] = RunMatcher(Matchers[k].fn, call.df).patterns
               /\ Len(call.df.bars) < MinLength(Matchers[k].fn) => ret.value[k] = <<>>

\* A pass over a 10-bar frame: too short for the head-and-shoulders matcher
\* (entry 3, empty) while the double-top matcher (entry 1) reports a record.
C14_Witness ==
  /\ ret.fn = "detect_all_patterns"
  /\ ~ret.raised
  /\ Len(call.df.bars) = 10
  /\ Len(ret.value[1]) = 1
  /\ ret.value[3] = <<>>

\* C15: a caller-misuse parameter (negative or zero `order` passed to the
\* extremum finder, `window` <= 0 passed to a sliding-window matcher) is
\* rejected with an explicit invalid-configuration failure rather than
\* yielding an empty or ordinary result.
C15_MisuseRejected ==
  /\ (FinderReturned /\ call.order <= 0) => ret.raised
  /\ (ret.fn = "find_triangle_patterns" /\ call.window <= 0) => ret.raised

(***************************************************************************)
(* Candlestick matchers.                                                   *)
(***************************************************************************)
\* The number of bars a detection of a candlestick matcher is computed from.
BarsUsed(fn) ==
  IF fn \in {"find_hammer_patterns", "find_doji_patterns"} THEN 1
  ELSE IF fn \in {"find_morning_star", "find_evening_star", "find_three_white_soldiers",
                  "find_three_black_crows"} THEN 3
  ELSE 2

ZeroRange(bar) == bar.high = bar.low

\* C20: every candlestick matcher skips a zero-range bar (high == low): no
\* division error occurs and no emitted detection has such a bar among the
\* 1 to 3 bars it was computed from.
C20_ZeroRangeSkipped ==
  ret.fn \in WickMatchers \cup BodyMatchers =>
    /\ ~ret.raised
    /\ \A k \in 1..Len(ret.value) :
         \A i \in (ret.value[k].index - BarsUsed(ret.fn) + 1)..ret.value[k].index :
           ~ZeroRange(BarAt(call.df, i))

(***************************************************************************)
(* Missing metrics.                                                        *)
(***************************************************************************)
AllMetricsNull(m) ==
  /\ IsNone(m.funding_rate_8h) /\ IsNone(m.oi_change_24h_pct)
  /\ IsNone(m.ls_accounts) /\ IsNone(m.ls_positions)
  /\ IsNone(m.liq_24h_long_usd) /\ IsNone(m.liq_24h_short_usd)

AllFlowInputsNull ==
  /\ IsNone(call.oi_change_pct) /\ IsNone(call.funding_rate)
  /\ IsNone(call.liq_long) /\ IsNone(call.liq_short)
  /\ call.ls_pos_series = <<>>

\* C30: when every market metric is null and the top-trader series is
\* empty, _compose_alpha returns score 50 with label NEUTRAL and
\* _smart_money_flow returns score 50 with label NEUTRAL and
\* delta_long_share_pp null; the only reason emitted by each is the
\* neutral-funding reason.
C30_AllNullNeutral ==
  /\ (ComposeReturned /\ AllMetricsNull(call.m)) =>
       /\ ~ret.raised
       /\ ret.composite = 50
       /\ ret.label = "NEUTRAL"
       /\ ret.reasons = <<"Funding netral">>
  /\ (SmartMoneyReturned /\ AllFlowInputsNull) =>
       /\ ~ret.raised
       /\ ret.score = 50
       /\ ret.label = "NEUTRAL"
       /\ IsNone(ret.delta_long_share_pp)
       /\ ret.reasons = <<"Funding: neutral">>

\* C30 witness: _smart_money_flow returned for all-null inputs and an empty
\* series.
C30_Witness ==
  /\ SmartMoneyReturned
  /\ AllFlowInputsNull
  /\ ~ret.raised
  /\ ret.score = 50

\* C30 witness of the composite: _compose_alpha returned for all-null
\* metrics.
C30_WitnessCompose ==
  /\ ComposeReturned
  /\ AllMetricsNull(call.m)
  /\ ret.composite = 50

(***************************************************************************)
(* Spacing of the extrema.                                                 *)
(***************************************************************************)
\* Any two distinct positions of idx differ by more than k.
SpacedBy(idx, k) ==
  \A i, j \in 1..Len(idx) : idx[i] # idx[j] => Abs(idx[i] - idx[j]) > k

\* Every pair of consecutive extrema passes the matchers' distance test.
DistanceTestPasses(ext) == \A i \in 1..(Len(ext) - 1) : ext[i + 1] - ext[i] >= 5

\* C27: any two distinct positions returned by _find_peaks or _find_troughs
\* with order k differ by more than k; with the default order 5 the
\* "at least 5 bars apart" test of find_double_top, find_double_bottom and
\* find_head_and_shoulders therefore never rejects a pair of consecutive
\* extrema.
C27_ExtremaSpacing ==
  /\ (FinderReturned /\ call.order >= 1) => SpacedBy(ret.value, call.order)
  /\ (ret.fn \in {"find_double_top", "find_head_and_shoulders"}
        /\ "high" \in call.df.columns) =>
       DistanceTestPasses(_find_peaks(Col(call.df, "high"), 5))
  /\ (ret.fn = "find_double_bottom" /\ "low" \in call.df.columns) =>
       DistanceTestPasses(_find_troughs(Col(call.df, "low"), 5))

\* C27 witness: the finder returned two positions for an order above 1.
C27_Witness ==
  /\ FinderReturned
  /\ call.order >= 2
  /\ Len(ret.value) >= 2

\* C27 witness of the matchers: find_double_top ran its distance test on a
\* pair of consecutive peaks and emitted the pair.
C27_WitnessMatcher ==
  /\ ret.fn = "find_double_top"
  /\ ~ret.raised
  /\ Len(ret.value) >= 1
  /\ ret.value[1].second_top - ret.value[1].first_top >= 5

(***************************************************************************)
(* Flat and malformed bars in the single-bar matchers.                     *)
(***************************************************************************)
SingleBarReturned == ret.fn \in {"find_hammer_patterns", "find_doji_patterns"}

\* A flat candle: high, low, open and close are one price.
Flat(bar) == bar.high = bar.low /\ bar.open = bar.close /\ bar.open = bar.high

Inverted(bar) == RLt(bar.high, bar.low)

DetectedAt(i) == \E k \in 1..Len(ret.value) : ret.value[k].index = i

\* What the matcher's test says of bar i alone.
SingleBarType(i) ==
  IF ret.fn = "find_hammer_patterns" THEN HammerType(call.df, i) ELSE DojiType(call.df, i)

\* The matcher got past its length test and scans the bars.
SingleBarScans == Len(call.df.bars) >= (IF ret.fn = "find_hammer_patterns" THEN 2 ELSE 1)

\* C21: a flat candle (high == low == open == close) at any position never
\* makes find_hammer_patterns or find_doji_patterns raise and never produces
\* a detection at that position, while the other bars are still scanned.
C21_FlatCandle ==
  (SingleBarReturned /\ \E i \in 0..(Len(call.df.bars) - 1) : Flat(BarAt(call.df, i))) =>
    /\ ~ret.raised
    /\ \A i \in 0..(Len(call.df.bars) - 1) :
         IF Flat(BarAt(call.df, i)) THEN ~DetectedAt(i)
         ELSE SingleBarScans => (DetectedAt(i) <=> SingleBarType(i) # "")

\* C21 witness: find_hammer_patterns met a flat candle first and emitted a
\* hammer at the bar after it.
C21_Witness ==
  /\ ret.fn = "find_hammer_patterns"
  /\ Len(call.df.bars) = 2
  /\ Flat(BarAt(call.df, 0))
  /\ Len(ret.value) = 1
  /\ ret.value[1].index = 1
  /\ ret.value[1].type = "hammer"

\* C21 witness of the doji matcher: a doji after a flat candle.
C21_WitnessDoji ==
  /\ ret.fn = "find_doji_patterns"
  /\ Len(call.df.bars) = 2
  /\ Flat(BarAt(call.df, 0))
  /\ Len(ret.value) = 1
  /\ ret.value[1].index = 1

\* C22: a bar with inverted high and low (high < low) is skipped by the
\* single-bar matchers: no detection is emitted at its index, and the
\* detections at every other index are those the bar's absence would give.
C22_InvertedBarSkipped ==
  SingleBarReturned =>
    \A i \in 0..(Len(call.df.bars) - 1) :
      IF Inverted(BarAt(call.df, i)) THEN ~DetectedAt(i)
      ELSE SingleBarScans => (DetectedAt(i) <=> SingleBarType(i) # "")

\* The other bars of a frame with an inverted bar are classified as they
\* are without it.
C22_OtherBarsUnaffected ==
  SingleBarReturned =>
    \A i \in 0..(Len(call.df.bars) - 1) :
      (~Inverted(BarAt(call.df, i)) /\ SingleBarScans) =>
        (DetectedAt(i) <=> SingleBarType(i) # "")

(***************************************************************************)
(* Order and range of the detections.                                      *)
(***************************************************************************)
MatcherNames == {Matchers[k].fn : k \in 1..Len(Matchers)}

MatcherReturned == ret.fn \in MatcherNames /\ ~ret.raised

\* The position a detection record starts at: the first bar of its window
\* or pole, its first extremum, or the bar of a candlestick record.
StartIndex(r) ==
  IF "start" \in DOMAIN r THEN r.start
  ELSE IF "cup_start" \in DOMAIN r THEN r.cup_start
  ELSE IF "pole_start" \in DOMAIN r THEN r.pole_start
  ELSE IF "drop_start" \in DOMAIN r THEN r.drop_start
  ELSE IF "first_top" \in DOMAIN r THEN r.first_top
  ELSE IF "first_bottom" \in DOMAIN r THEN r.first_bottom
  ELSE IF "left_shoulder" \in DOMAIN r THEN r.left_shoulder
  ELSE IF "peaks" \in DOMAIN r THEN r.peaks[1]
  ELSE IF "troughs" \in DOMAIN r THEN r.troughs[1]
  ELSE IF "adam" \in DOMAIN r THEN r.adam
  ELSE IF "A" \in DOMAIN r THEN r.A
  ELSE r.index

InScanOrder(records) ==
  \A k \in 1..(Len(records) - 1) : StartIndex(records[k]) <= StartIndex(records[k + 1])

\* C23: within the sequence returned by every matcher the detections appear
\* in ascending scan order: the starting index of each detection is greater
\* than or equal to that of the detection before it.
C23_ScanOrder ==
  /\ MatcherReturned => InScanOrder(ret.value)
  /\ (ret.fn = "detect_all_patterns" /\ ~ret.raised) =>
       \A k \in 1..Len(ret.value) : InScanOrder(ret.value[k])

\* C23 witness: find_cup_and_handle returned two cups, the later one last.
C23_Witness ==
  /\ ret.fn = "find_cup_and_handle"
  /\ Len(ret.value) >= 2
  /\ ret.value[1].cup_start < ret.value[2].cup_start

\* C23 witness of the extrema matchers: two ABCD records.
C23_WitnessAbcd ==
  /\ ret.fn = "find_abcd_pattern"
  /\ Len(ret.value) >= 2
  /\ ret.value[1].A < ret.value[2].A

\* C23 witness of the candlestick matchers: a tweezer top followed by a
\* tweezer bottom.
C23_WitnessTweezer ==
  /\ ret.fn = "find_tweezer_patterns"
  /\ Len(ret.value) = 2
  /\ ret.value[1].index < ret.value[2].index

\* The fields of a detection record that hold one position, and those that
\* hold a list of positions.
PositionFields ==
  {"index", "start", "cup_start", "cup_end", "handle_end", "pole_start", "drop_start",
   "bounce_start", "first_top", "second_top", "first_bottom", "second_bottom",
   "left_shoulder", "head", "right_shoulder", "adam", "eve", "A", "B", "C", "D"}

PositionListFields == {"peaks", "troughs"}

PositionsOf(r, fields) ==
  {r[f] : f \in DOMAIN r \cap fields}
    \cup UNION {{r[f][k] : k \in 1..Len(r[f])} : f \in DOMAIN r \cap PositionListFields}

AllInRange(records, fields, n) ==
  \A k \in 1..Len(records) : PositionsOf(records[k], fields) \subseteq 0..(n - 1)

\* C24: every positional index stored in a detection record returned by a
\* matcher (cup_start, cup_end and handle_end of find_cup_and_handle, index
\* and start of the sliding-window matchers included) lies in [0, N-1] for
\* the series of N bars the matcher ran on.
C24_IndicesInRange ==
  /\ MatcherReturned => AllInRange(ret.value, PositionFields, Len(call.df.bars))
  /\ (ret.fn = "detect_all_patterns" /\ ~ret.raised) =>
       \A k \in 1..Len(ret.value) :
         AllInRange(ret.value[k], PositionFields, Len(call.df.bars))

\* Every position but handle_end lies in [0, N-1].
C24_OtherIndicesInRange ==
  /\ MatcherReturned =>
       AllInRange(ret.value, PositionFields \ {"handle_end"}, Len(call.df.bars))
  /\ (ret.fn = "detect_all_patterns" /\ ~ret.raised) =>
       \A k \in 1..Len(ret.value) :
         AllInRange(ret.value[k], PositionFields \ {"handle_end"}, Len(call.df.bars))

(***************************************************************************)
(* Sliding windows.                                                        *)
(***************************************************************************)
SlidingWindowMatchers ==
  {"find_triangle_patterns", "find_rounding_bottom", "find_ascending_wedge",
   "find_descending_wedge", "find_rising_wedge", "find_falling_wedge",
   "find_channel_patterns", "find_megaphone_pattern", "find_bump_and_run",
   "find_rectangle_pattern"}

SlidingWindowReturned == ret.fn \in SlidingWindowMatchers /\ call.window >= 1

\* A bar that belongs to no frame of the model.
FillerBar == Bar(R(1), R(1), R(1), R(1))

\* The matcher of the call on other bars.
WindowRun(bars) == RunWindowed(call.fn, Frame(bars), call.window).patterns

\* A record moved to the frame that starts at its window.
AtWindowStart(r) ==
  IF "start" \in DOMAIN r THEN [r EXCEPT !.index = call.window, !.start = 0]
  ELSE [r EXCEPT !.index = call.window]

RecordsAt(i) ==
  LET here == SelectSeq(ret.value, LAMBDA r : r.index = i)
  IN  [k \in 1..Len(here) |-> AtWindowStart(here[k])]

\* C28: a detection of a sliding-window matcher with index i is computed
\* only from the bars i-window .. i-1, with window <= i <= N-1: the records
\* at i are those the matcher gives for these bars followed by any one bar.
\* Hence the window of the last `window` bars is never evaluated, the final
\* bar influences no detection, and a series of exactly `window` bars
\* yields no detection.
C28_WindowBeforeIndex ==
  SlidingWindowReturned =>
    /\ ~ret.raised
    /\ \A k \in 1..Len(ret.value) :
         call.window <= ret.value[k].index /\ ret.value[k].index <= Len(call.df.bars) - 1
    /\ \A i \in call.window..(Len(call.df.bars) - 1) :
         RecordsAt(i) = WindowRun(SubSeq(call.df.bars, i - call.window + 1, i) \o <<FillerBar>>)
    /\ Len(call.df.bars) >= 1 =>
         ret.value = WindowRun([call.df.bars EXCEPT ![Len(call.df.bars)] = FillerBar])
    /\ Len(call.df.bars) = call.window => ret.value = <<>>

\* C28 witness: a rectangle reported at the last bar of a frame longer than
\* the window.
C28_Witness ==
  /\ ret.fn = "find_rectangle_pattern"
  /\ Len(call.df.bars) > call.window + 1
  /\ Len(ret.value) >= 1
  /\ ret.value[Len(ret.value)].index = Len(call.df.bars) - 1

\* C28 witness of the triangles: one reported on a frame of window + 1 bars.
C28_WitnessTriangle ==
  /\ ret.fn = "find_triangle_patterns"
  /\ Len(call.df.bars) = call.window + 1
  /\ Len(ret.value) = 1

\* C28 witness of the shortest series: a frame of exactly `window` bars whose
\* bars form a rounding bottom.
C28_WitnessShortest ==
  /\ ret.fn = "find_rounding_bottom"
  /\ Len(call.df.bars) = call.window
  /\ ret.value = <<>>
  /\ WindowRun(call.df.bars \o <<FillerBar>>) # <<>>

(***************************************************************************)
(* Highlighting on the zoomed chart.                                       *)
(***************************************************************************)
\* The chart shows the bars int(x_min) .. int(x_max) - 1 and was given
\* recent patterns.
ShowsZoomRange ==
  /\ chart.df_backup.present
  /\ ~IsNone(chart.x_max)
  /\ DOMAIN chart.recent_patterns # {}
  /\ chart.x_display =
       [k \in 1..(PyInt(chart.x_max) - PyInt(chart.x_min)) |-> PyInt(chart.x_min) + k - 1]

\* The full-series positions of the detections inside the zoom range.
EligibleIndices ==
  {idx \in DetectionIndices(chart.recent_patterns) :
     PyInt(chart.x_min) <= idx /\ idx < PyInt(chart.x_max)}

MarkedPositions == {chart.markers[k] : k \in 1..Len(chart.markers)}

\* C25: on a zoomed chart showing the bars [int(x_min), int(x_max)) a
\* detection with representative index idx is eligible exactly when
\* int(x_min) <= idx < int(x_max), every marker is drawn at the x position
\* idx, and at most the 10 largest eligible indices are marked.
C25_ZoomHighlight ==
  ShowsZoomRange =>
    /\ MarkedPositions =
         {idx \in EligibleIndices : Cardinality({j \in EligibleIndices : j > idx}) < 10}
    /\ Len(chart.markers) = Cardinality(MarkedPositions)
    /\ Len(chart.markers) <= 10

\* C25 witness: a chart zoomed past its first bars, with a marker on some
\* detections and none on a detection left of the zoom range.
C25_Witness ==
  /\ ShowsZoomRange
  /\ PyInt(chart.x_min) > 0
  /\ chart.markers # <<>>
  /\ \E idx \in DetectionIndices(chart.recent_patterns) : idx < PyInt(chart.x_min)

\* C25 witness of the limit: more than ten eligible detections, ten marked.
C25_WitnessTen ==
  /\ ShowsZoomRange
  /\ Cardinality(EligibleIndices) > 10
  /\ Len(chart.markers) = 10

\* C25 witness of a zoom range with fractional bounds.
C25_WitnessFraction ==
  /\ ShowsZoomRange
  /\ chart.x_min[2] > 1
  /\ chart.markers # <<>>

(***************************************************************************)
(* The aggregator's sources and cache (C26, C29), under ServiceSpec.       *)
(***************************************************************************)

\* The last call of get_alpha_for_symbol went to the providers and returned.
AlphaQueried ==
  ret.fn = "get_alpha_for_symbol" /\ ~ret.raised /\ ~locals.hit

MetricGroups == {"funding", "oi", "ls", "liq"}

\* What a provider's answer holds for a group, as the fields of the metrics.
GroupAnswer(answer, g) ==
  CASE g = "funding" -> <<answer.funding>>
    [] g = "oi"      -> <<answer.oi.oi_level, answer.oi.oi_change_24h_pct>>
    [] g = "ls"      -> <<answer.ls.ls_accounts, answer.ls.ls_positions>>
    [] g = "liq"     -> <<answer.liq.liq_24h_long_usd, answer.liq.liq_24h_short_usd>>

\* What the returned metrics hold for a group.
GroupMetrics(m, g) ==
  CASE g = "funding" -> <<m.funding_rate_8h>>
    [] g = "oi"      -> <<m.oi_level, m.oi_change_24h_pct>>
    [] g = "ls"      -> <<m.ls_accounts, m.ls_positions>>
    [] g = "liq"     -> <<m.liq_24h_long_usd, m.liq_24h_short_usd>>

\* CoinGlass returned null for the group: no field of its answer has a value.
CoinGlassNull(g) ==
  \A k \in DOMAIN GroupAnswer(locals.cg, g) : GroupAnswer(locals.cg, g)[k] = None

BinanceQueryOf(g) ==
  CASE g = "funding" -> "bn.get_funding_rate"
    [] g = "oi"      -> "bn.get_open_interest_change"
    [] g = "ls"      -> "bn.get_long_short_ratio"
    [] g = "liq"     -> "bn.get_liquidations_24h"

CoinGlassQueryOf(g) ==
  CASE g = "funding" -> "cg.get_funding_rate"
    [] g = "oi"      -> "cg.get_open_interest_change"
    [] g = "ls"      -> "cg.get_long_short_ratio"
    [] g = "liq"     -> "cg.get_liquidations_24h"

\* The positions of a query in the log of the call (none when it was not made).
QueryPositions(q) == {k \in 1..Len(locals.queries) : locals.queries[k] = q}

\* C26: in a call of get_alpha_for_symbol that goes to the providers, every
\* metric group is asked of CoinGlass once, before any Binance query; the
\* group is asked of Binance exactly when CoinGlass returned null for it;
\* and the metrics hold CoinGlass's answer for the group when it is not
\* null, otherwise Binance's answer.
C26_SourcePriority ==
  AlphaQueried =>
    \A g \in MetricGroups :
      /\ Cardinality(QueryPositions(CoinGlassQueryOf(g))) = 1
      /\ \A i \in QueryPositions(CoinGlassQueryOf(g)), h \in MetricGroups :
           \A j \in QueryPositions(BinanceQueryOf(h)) : i < j
      /\ QueryPositions(BinanceQueryOf(g)) # {} <=> CoinGlassNull(g)
      /\ Cardinality(QueryPositions(BinanceQueryOf(g))) <= 1
      /\ GroupMetrics(ret.value.metrics, g) =
           IF CoinGlassNull(g) THEN GroupAnswer(locals.bn, g)
           ELSE GroupAnswer(locals.cg, g)

\* A call in which the sources are mixed: open interest and liquidations
\* come from Binance, the funding rate 0 and the half-filled long/short
\* group from CoinGlass.
C26_Witness ==
  /\ AlphaQueried
  /\ CoinGlassNull("oi") /\ CoinGlassNull("liq")
  /\ ~CoinGlassNull("funding") /\ ~CoinGlassNull("ls")
  /\ ret.value.metrics.funding_rate_8h = R(0)
  /\ ret.value.metrics.oi_level = R(2000)
  /\ ret.value.metrics.ls_positions = None
  /\ ret.value.metrics.liq_24h_long_usd = R(130)

\* A call in which neither source has anything: every metric is null.
C26_WitnessBothNull ==
  /\ AlphaQueried
  /\ \A g \in MetricGroups :
       /\ CoinGlassNull(g)
       /\ \A k \in DOMAIN GroupMetrics(ret.value.metrics, g) :
            GroupMetrics(ret.value.metrics, g)[k] = None
  /\ Len(locals.queries) = 9

\* A step of the service is a call of get_alpha_for_symbol.
AlphaCall == service'.calls = service.calls + 1

\* The cache key of the symbol the call is made for.
CalledKey == CacheKey(BaseSymbol(call'.symbol))

\* The entry of that key is present and younger than cache_ttl when the call
\* is made.
EntryYoung ==
  /\ CalledKey \in DOMAIN service.cache
  /\ service.clock - service.cache[CalledKey][2] < service.ttl

\* C29: a call for a base symbol whose stored entry is younger than
\* cache_ttl returns the stored result, queries no provider and leaves the
\* cache alone; any other call queries the providers and stores what it
\* returns under the base symbol, with the time of the store.
C29_CacheServes ==
  [][AlphaCall =>
       IF EntryYoung
       THEN /\ ret'.value = service.cache[CalledKey][1]
            /\ locals'.queries = <<>>
            /\ service'.cache = service.cache
       ELSE /\ locals'.queries # <<>>
            /\ CalledKey \in DOMAIN service'.cache
            /\ service'.cache[CalledKey] = <<ret'.value, service'.clock>>
            /\ \A k \in DOMAIN service.cache \ {CalledKey} :
                 k \in DOMAIN service'.cache /\ service'.cache[k] = service.cache[k]]_vars

\* A result served from the cache, one second or more after it was stored,
\* to a call that spells the symbol with a quote suffix.
C29_Witness ==
  /\ ret.fn = "get_alpha_for_symbol"
  /\ locals.hit
  /\ call.symbol # locals.base
  /\ service.clock > service.cache[CacheKey(locals.base)][2]
  /\ ret.value = service.cache[CacheKey(locals.base)][1]

\* An entry that had reached cache_ttl and was replaced by a later call.
C29_WitnessReplaced ==
  /\ AlphaQueried
  /\ locals.stored
  /\ service.ttl > 0
  /\ service.cache[CacheKey(locals.base)] = <<ret.value, service.clock>>

====
